---------------------------- MODULE Spec2Model ----------------------------
(***************************************************************************)
(* Negotiation state machines of the AI_NEGOTIATION repository.            *)
(*                                                                         *)
(*  - Spec       : the AI-vs-AI session, ConversationManager               *)
(*                 .start_conversation driving YourBuyerAgent against      *)
(*                 AdvancedSellerAgent (src/Ai_negotiation.py).            *)
(*  - FairSpec   : sessions of Spec, running until they return.            *)
(*  - SpecHuman  : the human-vs-AI systems, BargainingSystem               *)
(*                 (src/bargaining_system.py) and SmartBargainingSystem    *)
(*                 (src/in.py), driven by any sequence of commands at any  *)
(*                 times.                                                  *)
(*  - SpecBuyer  : the buyer agents as functions of the context they are   *)
(*                 handed: YourBuyerAgent (src/Ai_negotiation.py),         *)
(*                 EliteNegotiatorAgent and ExampleSimpleAgent             *)
(*                 (src/new_bargain_platform.py), against any seller       *)
(*                 prices.                                                 *)
(*  - SpecEither, SpecAnySeller, SpecInteractive, SpecLoop, SpecService,   *)
(*    SpecAgent : the two kinds of session side by side, the session with  *)
(*                 any seller, InteractiveNegotiation, the command loop of *)
(*                 src/in.py, the sellers under any reply of the           *)
(*                 text-generation service, and the seller of              *)
(*                 src/negotiation_agent.py; each is introduced in its own *)
(*                 section.                                                *)
(*                                                                         *)
(* Prices are rupees, as in the code.  Python evaluates int(x * 0.82) and  *)
(* the like in binary floating point; the model evaluates them as exact    *)
(* rationals truncated toward zero.  The two agree on every input the      *)
(* specifications below enumerate: each specification's reachable states   *)
(* are the states the Python code reaches on the same inputs.              *)
(***************************************************************************)
EXTENDS Integers, Sequences, FiniteSets

VARIABLES
    manager,        \* ConversationManager: its fields, context included
                    \* (InteractiveNegotiation's fields in SpecInteractive)
    seller_agent,   \* AdvancedSellerAgent: min_price, strategy, rounds_passed
                    \* (in SpecService the human-vs-AI seller's client: connected)
    buyer_agent,    \* YourBuyerAgent._state
    buyer_offer,    \* start_conversation's local: the buyer's latest price
    sellers_price,  \* start_conversation's local seller_price: the seller's latest price
    pc,             \* position in start_conversation (start_interactive_session)
    system,         \* BargainingSystem / SmartBargainingSystem: the program that
                    \* runs, its seller's personality, its current_negotiation
    elapsed,        \* time.time() - start_time at the latest clock read, seconds
    ret,            \* the latest command and what it returned
    call            \* a buyer agent, the context it is handed and what it returned
                    \* (in SpecService a seller's answers under two service replies)

session_vars == <<manager, seller_agent, buyer_agent, buyer_offer, sellers_price, pc>>

human_vars == <<system, elapsed, ret>>

vars ==
    <<manager, seller_agent, buyer_agent, buyer_offer, sellers_price, pc, system, elapsed, ret,
      call>>

-----------------------------------------------------------------------------
(* Python values *)

\* Optional[int]: None is the empty sequence, a value v is <<v>>.
None == <<>>

Some(v) == <<v>>

IsNone(o) == o = <<>>

\* Python truthiness of an Optional[int]: None and 0 are falsy.
Truthy(o) == o # <<>> /\ o[1] # 0

\* int(n / d) for d > 0: truncation toward zero.
Trunc(n, d) == IF n >= 0 THEN n \div d ELSE -((-n) \div d)

Max2(a, b) == IF a >= b THEN a ELSE b

Min2(a, b) == IF a <= b THEN a ELSE b

Last(s) == s[Len(s)]

ONGOING == "ongoing"

ACCEPTED == "accepted"

REJECTED == "rejected"

TIMEOUT == "timeout"

-----------------------------------------------------------------------------
(* AdvancedSellerAgent, src/Ai_negotiation.py *)

\* strategy -> opening multiplier, in tenths
OpeningTenths(strategy) ==
    IF strategy = "aggressive" THEN 18
    ELSE IF strategy = "conservative" THEN 13
    ELSE 15

get_opening_price(agent, product) ==
    Trunc(product.base_market_price * OpeningTenths(agent.strategy), 10)

\* accept_threshold, in percent
AcceptThresholdPct(strategy) ==
    IF strategy = "aggressive" THEN 15
    ELSE IF strategy = "conservative" THEN 5
    ELSE 10

\* concession_rate, in percent
ConcessionRatePct(strategy) ==
    IF strategy = "aggressive" THEN 8
    ELSE IF strategy = "conservative" THEN 12
    ELSE 10

SellerLateRound == 8

SellerFinalRound == 9

SellerLateStage == 7

\* Mutant: the seller never says it accepts.
SellerAcceptsNever(agent, offer, round_num) == FALSE

\* Mutant: in a late round the seller takes any offer, even one below min_price.
SellerAcceptsNoFloor(agent, offer, round_num) ==
    \/ (offer - agent.min_price) * 100
          >= AcceptThresholdPct(agent.strategy) * agent.min_price
    \/ round_num >= SellerLateRound

\* profit_margin >= accept_threshold or (round_num >= 8 and offer >= min_price)
SellerAccepts(agent, offer, round_num) ==
    \/ (offer - agent.min_price) * 100
          >= AcceptThresholdPct(agent.strategy) * agent.min_price
    \/ (round_num >= SellerLateRound /\ offer >= agent.min_price)

SellerCounter(agent, offer, round_num) ==
    LET rate == ConcessionRatePct(agent.strategy) IN
    IF round_num >= SellerFinalRound
      THEN Max2(agent.min_price, Trunc(offer * 102, 100))
    ELSE IF round_num >= SellerLateStage
      THEN Max2(agent.min_price, Trunc(offer * (200 + rate), 200))
    ELSE Max2(agent.min_price, Trunc(offer * (100 + rate), 100))

\* returns (price, accepts); the message is not part of the decision
respond_to_buyer(agent, offer, round_num) ==
    IF SellerAccepts(agent, offer, round_num)
      THEN [price |-> offer, accepts |-> TRUE]
      ELSE [price |-> SellerCounter(agent, offer, round_num),
            accepts |-> FALSE]

-----------------------------------------------------------------------------
(* YourBuyerAgent, src/Ai_negotiation.py *)

MIN_STEP == 1000

\* FAR_STEP_RATIO = 0.08 and CLOSE_STEP_RATIO = 0.03, in percent
FAR_STEP_PCT == 8

CLOSE_STEP_PCT == 3

\* ESTIMATE_DECAY = 0.80, in tenths
ESTIMATE_DECAY_TENTHS == 8

BuyerFinalRound == 10

BuyerLateRound == 8

\* (grade or "").upper() of the grades the specifications enumerate
Upper(grade) ==
    CASE grade = "Export" -> "EXPORT"
      [] grade = "export" -> "EXPORT"
      [] grade = "a" -> "A"
      [] grade = "b" -> "B"
      [] OTHER -> grade

\* "EXPORT" in g
ContainsExport(g) == g = "EXPORT"

\* in percent
_quality_opening_multiplier(grade) ==
    LET g == Upper(grade) IN
    IF ContainsExport(g) THEN 82
    ELSE IF g = "A" THEN 80
    ELSE IF g = "B" THEN 76
    ELSE 78

\* in percent
_quality_walkaway_multiplier(grade) ==
    LET g == Upper(grade) IN
    IF ContainsExport(g) THEN 96
    ELSE IF g = "A" THEN 94
    ELSE IF g = "B" THEN 90
    ELSE 92

_bounds(context) ==
    LET market == context.product.base_market_price
        opening0 == Trunc(market * _quality_opening_multiplier(context.product.quality_grade), 100)
        walkaway0 == Trunc(market * _quality_walkaway_multiplier(context.product.quality_grade), 100)
        opening1 == Min2(opening0, context.your_budget)
        walkaway1 == Min2(walkaway0, context.your_budget)
    IN  [opening |-> Min2(opening1, walkaway1), walkaway |-> walkaway1]

\* the buyer's private _state: the running estimate of the seller's floor
_init_state == [seller_min_est |-> None, times_seen |-> 0]

_update_seller_model(state, seller_price) ==
    [seller_min_est |->
        IF IsNone(state.seller_min_est)
          THEN Some(Trunc(seller_price * 9, 10))
          ELSE Some(Trunc(ESTIMATE_DECAY_TENTHS * state.seller_min_est[1]
                          + (10 - ESTIMATE_DECAY_TENTHS) * Trunc(seller_price * 85, 100), 10)),
     times_seen |-> state.times_seen + 1]

\* ((rnd - 1) / 9.0) ** 1.2, times 10^8, rounded down
Eased8 ==
    <<0, 7159933, 16449207, 26758052, 37790355,
      49393863, 61473860, 73965063, 86819438, 100000000>>

\* floor(d * Eased8[rnd] / 10^8) for 0 <= d < 10^8, in 32-bit steps
MulEased(d, rnd) ==
    LET e == Eased8[rnd]
        dh == d \div 10000
        dl == d % 10000
        eh == e \div 10000
        el == e % 10000
    IN  dh * eh + ((dh * el + dl * eh + ((dl * el) \div 10000)) \div 10000)

\* round_target = int(opening + (walkaway - opening) * eased)
RoundTarget(opening, walkaway, current_round) ==
    LET rnd == Max2(1, Min2(10, current_round))
    IN  opening + MulEased(walkaway - opening, rnd)

generate_opening_offer(context) == _bounds(context).opening

\* the tiered step of lines 455-464
ConcessionStep(market, seller_price, last_my) ==
    LET far == Trunc(Max2(MIN_STEP * 100, market * FAR_STEP_PCT), 100)
        close == Trunc(Max2(MIN_STEP * 100, market * CLOSE_STEP_PCT), 100)
        gap == seller_price - last_my
        base == Max2(1, last_my)
    IN  IF gap * 100 > 12 * base THEN far
        ELSE IF gap * 100 > 4 * base THEN Trunc(far + close, 2)
        ELSE close

\* Mutant: the final clamp to budget and walk-away is dropped.
CounterNoClamp(context, seller_price, last_my) ==
    LET b == _bounds(context)
        step == ConcessionStep(context.product.base_market_price, seller_price, last_my)
        p0 == IF seller_price > last_my
                THEN last_my + Max2(step, Trunc((seller_price - last_my) * 5, 10))
                ELSE Max2(b.opening, seller_price - MIN_STEP)
        p1 == Max2(Max2(p0, b.opening), last_my)
    IN  IF p1 = last_my THEN p1 + MIN_STEP ELSE p1

\* Mutant: a counter equal to the last offer is returned as it is.
BuyerCounterUnmoved(context, seller_price, last_my) ==
    LET b == _bounds(context)
        step == ConcessionStep(context.product.base_market_price, seller_price, last_my)
        p0 == IF seller_price > last_my
                THEN Min2(context.your_budget,
                          last_my + Max2(step, Trunc((seller_price - last_my) * 5, 10)))
                ELSE Max2(b.opening, Min2(context.your_budget, seller_price - MIN_STEP))
        p1 == Max2(Max2(p0, b.opening), last_my)
    IN  Min2(Min2(p1, context.your_budget), b.walkaway)

\* lines 466-477: the counter-offer to an explicit seller price
BuyerCounter(context, seller_price, last_my) ==
    LET b == _bounds(context)
        step == ConcessionStep(context.product.base_market_price, seller_price, last_my)
        p0 == IF seller_price > last_my
                THEN Min2(context.your_budget,
                          last_my + Max2(step, Trunc((seller_price - last_my) * 5, 10)))
                ELSE Max2(b.opening, Min2(context.your_budget, seller_price - MIN_STEP))
        p1 == Max2(Max2(p0, b.opening), last_my)
        p2 == Min2(Min2(p1, context.your_budget), b.walkaway)
    IN  IF p2 = last_my /\ p2 + MIN_STEP <= context.your_budget
          THEN p2 + MIN_STEP
          ELSE p2

\* lines 447-452: no explicit seller price
BuyerNudge(context, last_my) ==
    Max2(Min2(context.your_budget, Trunc(last_my * 105, 100)), _bounds(context).opening)

\* Mutant: the final-round fallback takes the seller's price whatever the budget.
BuyerAcceptsOverBudget(context, seller_price, state) ==
    /\ ~IsNone(seller_price)
    /\ LET b == _bounds(context)
           sp == seller_price[1]
       IN  \/ context.current_round >= BuyerFinalRound
           \/ (sp <= RoundTarget(b.opening, b.walkaway, context.current_round)
               /\ sp <= context.your_budget)
           \/ /\ context.current_round >= BuyerLateRound
              /\ ~IsNone(state.seller_min_est)
              /\ sp <= Max2(state.seller_min_est[1], b.walkaway)
              /\ sp <= context.your_budget

\* lines 429-446: the three acceptance rules; state is the updated _state
BuyerAccepts(context, seller_price, state) ==
    /\ ~IsNone(seller_price)
    /\ LET b == _bounds(context)
           sp == seller_price[1]
       IN  \/ (context.current_round >= BuyerFinalRound /\ sp <= context.your_budget)
           \/ (sp <= RoundTarget(b.opening, b.walkaway, context.current_round)
               /\ sp <= context.your_budget)
           \/ /\ context.current_round >= BuyerLateRound
              /\ ~IsNone(state.seller_min_est)
              /\ sp <= Max2(state.seller_min_est[1], b.walkaway)
              /\ sp <= context.your_budget

\* returns (status, price) and the agent's updated _state
respond_to_seller_offer(context, seller_price, state) ==
    LET st == IF IsNone(seller_price) THEN state
              ELSE _update_seller_model(state, seller_price[1])
        opening == _bounds(context).opening
        last_my == IF Len(context.your_offers) > 0 THEN Last(context.your_offers)
                   ELSE opening
    IN  IF BuyerAccepts(context, seller_price, st)
          THEN [status |-> ACCEPTED, price |-> seller_price[1], state |-> st]
        ELSE IF IsNone(seller_price)
          THEN [status |-> ONGOING, price |-> BuyerNudge(context, last_my), state |-> st]
        ELSE [status |-> ONGOING,
              price |-> BuyerCounter(context, seller_price[1], last_my),
              state |-> st]

-----------------------------------------------------------------------------
(* ConversationManager, src/Ai_negotiation.py *)

max_rounds == 10

\* the sessions the specification enumerates
Markets == {100000, 180000, 200000}

Grades == {"Export", "A", "b", "Standard"}

Budgets == {90000, 150000, 170000, 190000, 250000}

MinPrices == {80000, 140000, 160000, 200000, 300000}

Strategies == {"aggressive", "balanced", "conservative"}

\* ConversationManager.__init__
NewManager(product, budget) ==
    [product |-> product,
     buyer_budget |-> budget,
     conversation_history |-> <<>>,
     round_number |-> 0,
     deal_status |-> ONGOING,
     final_price |-> None,
     context |-> [product |-> product,
                  your_budget |-> budget,
                  current_round |-> 0,
                  seller_offers |-> <<>>,
                  your_offers |-> <<>>,
                  messages |-> <<>>]]

\* AdvancedSellerAgent.__init__
NewSeller(min_price, strategy) ==
    [min_price |-> min_price, strategy |-> strategy, rounds_passed |-> 0]

\* Mutant: the two offer lists are swapped.
_add_turnSwappedLists(m, speaker, price_offer) ==
    [m EXCEPT
       !.conversation_history =
           Append(@, [speaker |-> speaker,
                      price_offer |-> price_offer,
                      round_number |-> m.round_number,
                      deal_status |-> m.deal_status]),
       !.context.seller_offers =
           IF speaker = "buyer" /\ Truthy(price_offer) THEN Append(@, price_offer[1]) ELSE @,
       !.context.your_offers =
           IF speaker = "seller" /\ Truthy(price_offer) THEN Append(@, price_offer[1]) ELSE @,
       !.context.messages = Append(@, speaker)]

_add_turn(m, speaker, price_offer) ==
    [m EXCEPT
       !.conversation_history =
           Append(@, [speaker |-> speaker,
                      price_offer |-> price_offer,
                      round_number |-> m.round_number,
                      deal_status |-> m.deal_status]),
       !.context.seller_offers =
           IF speaker = "seller" /\ Truthy(price_offer) THEN Append(@, price_offer[1]) ELSE @,
       !.context.your_offers =
           IF speaker = "buyer" /\ Truthy(price_offer) THEN Append(@, price_offer[1]) ELSE @,
       !.context.messages = Append(@, speaker)]

\* Mutant: the loop runs while round_number <= max_rounds.
LoopConditionOffByOne(m) ==
    m.deal_status = ONGOING /\ m.round_number <= max_rounds

\* line 102: while self.deal_status == ONGOING and self.round_number < max_rounds
LoopCondition(m) ==
    m.deal_status = ONGOING /\ m.round_number < max_rounds

\* Mutant: context.current_round is left as it was.
BeginRoundStaleContext(m) ==
    [m EXCEPT !.round_number = @ + 1]

\* lines 103-104
BeginRound(m) ==
    [m EXCEPT !.round_number = @ + 1,
              !.context.current_round = m.round_number + 1]

\* Mutant: the price of a buyer acceptance is not recorded.
BuyerFinalPriceUnset(m, offer) == None

\* line 120
BuyerFinalPrice(m, offer) ==
    IF Len(m.context.seller_offers) > 0
      THEN Some(Last(m.context.seller_offers))
      ELSE Some(offer)

\* Mutant: no break after the buyer accepts; the seller is still asked.
AfterBuyerNoBreak(status) == "seller"

\* lines 119-121: break out of the loop on acceptance
AfterBuyer(status) == IF status = ACCEPTED THEN "after_loop" ELSE "seller"

\* Mutant: the timeout is applied whatever the status.
TimedOutAlways(m) == TRUE

\* line 137
TimedOut(m) == m.deal_status = ONGOING

\* lines 138-139
Timeout(m) == _add_turn([m EXCEPT !.deal_status = TIMEOUT], "system", None)

Init ==
    /\ \E market \in Markets, grade \in Grades, budget \in Budgets :
          manager = NewManager([base_market_price |-> market, quality_grade |-> grade],
                               budget)
    /\ \E min_price \in MinPrices, strategy \in Strategies :
          seller_agent = NewSeller(min_price, strategy)
    /\ buyer_agent = _init_state
    /\ buyer_offer = None
    /\ sellers_price = None
    /\ pc = "open"
    /\ system = [program |-> "none", personality |-> None, current_negotiation |-> None]
    /\ elapsed = 0
    /\ ret = [op |-> "none", result |-> FALSE]
    /\ call = [agent |-> "none"]

\* lines 96-98: the seller opens
SellerOpens ==
    /\ pc = "open"
    /\ LET price == get_opening_price(seller_agent, manager.product)
       IN  /\ sellers_price' = Some(price)
           /\ manager' = _add_turn(manager, "seller", Some(price))
    /\ pc' = "loop"
    /\ UNCHANGED <<seller_agent, buyer_agent, buyer_offer>>
    /\ UNCHANGED <<human_vars, call>>

\* lines 102-115: a round begins and the buyer is asked; its answer is
\* assigned to deal_status and buyer_offer
BuyerTurn ==
    /\ pc = "loop"
    /\ LoopCondition(manager)
    /\ LET m1 == BeginRound(manager)
           last_seller_price ==
               IF Len(m1.context.seller_offers) > 0
                 THEN Some(Last(m1.context.seller_offers))
                 ELSE None
           r == IF m1.round_number = 1
                  THEN [status |-> ONGOING,
                        price |-> generate_opening_offer(m1.context),
                        state |-> buyer_agent]
                  ELSE respond_to_seller_offer(m1.context, last_seller_price, buyer_agent)
       IN  /\ manager' = [m1 EXCEPT !.deal_status = r.status]
           /\ buyer_agent' = r.state
           /\ buyer_offer' = Some(r.price)
    /\ pc' = "buyer_record"
    /\ UNCHANGED <<seller_agent, sellers_price>>
    /\ UNCHANGED <<human_vars, call>>

\* lines 117-121: the buyer's turn is recorded; an acceptance fixes the price
\* and leaves the loop
BuyerRecord ==
    /\ pc = "buyer_record"
    /\ LET m2 == _add_turn(manager, "buyer", buyer_offer)
       IN  manager' = IF manager.deal_status = ACCEPTED
                        THEN [m2 EXCEPT !.final_price = BuyerFinalPrice(m2, buyer_offer[1])]
                        ELSE m2
    /\ pc' = AfterBuyer(manager.deal_status)
    /\ UNCHANGED <<seller_agent, buyer_agent, buyer_offer, sellers_price>>
    /\ UNCHANGED <<human_vars, call>>

\* lines 124-130: the seller is asked; an acceptance sets deal_status and
\* final_price
SellerTurn ==
    /\ pc = "seller"
    /\ LET r == respond_to_buyer(seller_agent, buyer_offer[1], manager.round_number)
       IN  /\ seller_agent' = [seller_agent EXCEPT !.rounds_passed = manager.round_number]
           /\ sellers_price' = Some(r.price)
           /\ manager' = IF r.accepts
                           THEN [manager EXCEPT !.deal_status = ACCEPTED,
                                                !.final_price = buyer_offer]
                           ELSE manager
    /\ pc' = "seller_record"
    /\ UNCHANGED <<buyer_agent, buyer_offer>>
    /\ UNCHANGED <<human_vars, call>>

\* lines 131-134: the seller's turn is recorded; an acceptance leaves the loop
SellerRecord ==
    /\ pc = "seller_record"
    /\ manager' = _add_turn(manager, "seller", sellers_price)
    /\ pc' = IF manager.deal_status = ACCEPTED THEN "after_loop" ELSE "loop"
    /\ UNCHANGED <<seller_agent, buyer_agent, buyer_offer, sellers_price>>
    /\ UNCHANGED <<human_vars, call>>

\* line 102: the loop condition fails
LoopExit ==
    /\ pc = "loop"
    /\ ~LoopCondition(manager)
    /\ pc' = "after_loop"
    /\ UNCHANGED <<manager, seller_agent, buyer_agent, buyer_offer, sellers_price>>
    /\ UNCHANGED <<human_vars, call>>

\* lines 136-142: the timeout, and the return
HandleTimeout ==
    /\ pc = "after_loop"
    /\ manager' = IF TimedOut(manager) THEN Timeout(manager) ELSE manager
    /\ pc' = "done"
    /\ UNCHANGED <<seller_agent, buyer_agent, buyer_offer, sellers_price>>
    /\ UNCHANGED <<human_vars, call>>

Next ==
    \/ SellerOpens
    \/ BuyerTurn
    \/ BuyerRecord
    \/ SellerTurn
    \/ SellerRecord
    \/ LoopExit
    \/ HandleTimeout

Spec == Init /\ [][Next]_vars

\* the sessions over the product of run_full_conversation, base_market_price 200000
InitFair == Init /\ manager.product.base_market_price = 200000

\* start_conversation is one sequential call: it runs until it returns
FairSpec == InitFair /\ [][Next]_vars /\ WF_vars(Next)

\* the sessions in which the seller's minimum is at or just below the buyer's
\* budget, both above the buyer's walk-away price for grade B
NarrowBudgets == {92000}

NarrowMinPrices == {91500, 92000}

InitNarrowMargin ==
    /\ \E grade \in Grades, budget \in NarrowBudgets :
          manager = NewManager([base_market_price |-> 100000, quality_grade |-> grade],
                               budget)
    /\ \E min_price \in NarrowMinPrices, strategy \in Strategies :
          seller_agent = NewSeller(min_price, strategy)
    /\ buyer_agent = _init_state
    /\ buyer_offer = None
    /\ sellers_price = None
    /\ pc = "open"
    /\ system = [program |-> "none", personality |-> None, current_negotiation |-> None]
    /\ elapsed = 0
    /\ ret = [op |-> "none", result |-> FALSE]
    /\ call = [agent |-> "none"]

SpecNarrowMargin == InitNarrowMargin /\ [][Next]_vars

-----------------------------------------------------------------------------
(* The agents' random choices, src/Ai_negotiation.py *)

\* _generate_counter_message, lines 265-280: random.choice among four
\* sentences, six from round 5 on
SellerPhrases(round_num) == 1..(IF round_num >= 5 THEN 6 ELSE 4)

\* _format_seductive, lines 370-384: random.choice of a preface and of a
\* closing line, four of each
BuyerPhrases == (1..4) \X (1..4)

\* Mutant: the sentence drawn moves the price by a rupee per place in the list.
PriceSaidByPhrase(price, phrase) == price + phrase - 1

\* the random choice picks the sentence around the price, never the price
\* (lines 258-262 and 277-280; 403, 432-452, 489-490)
PriceSaid(price, phrase) == price

\* respond_to_buyer with its message, lines 231-262, under the sentence
\* random.choice picks (asked for only before round 7 and on a counter-offer)
SellerSays(agent, offer, round_num, phrase) ==
    LET r == respond_to_buyer(agent, offer, round_num)
        drawn == ~r.accepts /\ round_num < SellerLateStage
    IN  [price |-> IF drawn THEN PriceSaid(r.price, phrase) ELSE r.price,
         accepts |-> r.accepts,
         message |-> IF drawn THEN phrase ELSE 0]

\* the buyer's move of lines 106-114 with its message, under the preface and
\* the closing line random.choice picks
BuyerSays(context, state, phrases) ==
    LET last_seller_price ==
            IF Len(context.seller_offers) > 0 THEN Some(Last(context.seller_offers))
            ELSE None
        r == IF context.current_round = 1
               THEN [status |-> ONGOING, price |-> generate_opening_offer(context)]
               ELSE respond_to_seller_offer(context, last_seller_price, state)
    IN  [status |-> r.status,
         price |-> PriceSaid(r.price, phrases[1]),
         message |-> phrases]

-----------------------------------------------------------------------------
(* ConversationManager with any seller agent, src/Ai_negotiation.py *)

\* ConversationManager is handed its seller_agent (line 66) and calls only its
\* get_opening_price and respond_to_buyer: here the seller is any object with
\* these two methods, its answers drawn from the sets below.
AnySellerOpenings == {130000, 150000, 230000}

AnySellerCounters == {170000, 230000}

AnySellerBudgets == {140000, 190000}

\* the product of run_full_conversation, a budget, YourBuyerAgent, some seller
InitAnySeller ==
    /\ \E budget \in AnySellerBudgets :
          manager = NewManager([base_market_price |-> 200000, quality_grade |-> "Export"],
                               budget)
    /\ seller_agent = [min_price |-> 0, strategy |-> "any", rounds_passed |-> 0]
    /\ buyer_agent = _init_state
    /\ buyer_offer = None
    /\ sellers_price = None
    /\ pc = "open"
    /\ system = [program |-> "none", personality |-> None, current_negotiation |-> None]
    /\ elapsed = 0
    /\ ret = [op |-> "none", result |-> FALSE]
    /\ call = [agent |-> "none"]

\* lines 96-98: the seller opens, at whatever price its get_opening_price returns
AnySellerOpens ==
    /\ pc = "open"
    /\ \E price \in AnySellerOpenings :
          /\ sellers_price' = Some(price)
          /\ manager' = _add_turn(manager, "seller", Some(price))
    /\ pc' = "loop"
    /\ UNCHANGED <<seller_agent, buyer_agent, buyer_offer>>
    /\ UNCHANGED <<human_vars, call>>

\* lines 124-130: the seller is asked and answers whatever its respond_to_buyer
\* returns; an acceptance sets deal_status and final_price
AnySellerTurn ==
    /\ pc = "seller"
    /\ \E price \in AnySellerCounters, seller_accepts \in BOOLEAN :
          /\ sellers_price' = Some(price)
          /\ manager' = IF seller_accepts
                          THEN [manager EXCEPT !.deal_status = ACCEPTED,
                                               !.final_price = buyer_offer]
                          ELSE manager
    /\ pc' = "seller_record"
    /\ UNCHANGED <<seller_agent, buyer_agent, buyer_offer>>
    /\ UNCHANGED <<human_vars, call>>

NextAnySeller ==
    \/ AnySellerOpens
    \/ BuyerTurn
    \/ BuyerRecord
    \/ AnySellerTurn
    \/ SellerRecord
    \/ LoopExit
    \/ HandleTimeout

SpecAnySeller == InitAnySeller /\ [][NextAnySeller]_vars

-----------------------------------------------------------------------------
(* InteractiveNegotiation, src/Ai_negotiation.py *)

\* what the human types at the prompt
HumanInputs == {"quit", "hello", "500", "200000", "100000", "150,000", "160000"}

\* line 636: human_input.lower() in ['quit', 'exit', 'q']
IsQuit(human_input) == human_input = "quit"

\* lines 667-680: the first of the three patterns that matches gives the price;
\* "500" has fewer than four digits and no comma, "hello" has no digit
_extract_price_from_input(text) ==
    CASE text = "200000" -> Some(200000)
      [] text = "100000" -> Some(100000)
      [] text = "150,000" -> Some(150000)
      [] text = "160000" -> Some(160000)
      [] OTHER -> None

\* InteractiveNegotiation.__init__
NewInteractive(product, human_budget) ==
    [product |-> product,
     human_budget |-> human_budget,
     conversation_history |-> <<>>,
     round_number |-> 0,
     human_offers |-> <<>>,
     ai_offers |-> <<>>]

\* line 629: self.round_number += 1, before the input is read
InputRound(m, human_input) == m.round_number + 1

\* interactive mode of the main program (lines 703-717), with any seller strategy
InitInteractive ==
    /\ manager = NewInteractive([base_market_price |-> 180000, quality_grade |-> "A"], 170000)
    /\ \E strategy \in Strategies : seller_agent = NewSeller(140000, strategy)
    /\ buyer_agent = _init_state
    /\ buyer_offer = None
    /\ sellers_price = None
    /\ pc = "open"
    /\ system = [program |-> "none", personality |-> None, current_negotiation |-> None]
    /\ elapsed = 0
    /\ ret = [op |-> "none", result |-> FALSE]
    /\ call = [agent |-> "none"]

\* lines 622-625: the AI seller opens
InteractiveOpens ==
    /\ pc = "open"
    /\ LET ai_price == get_opening_price(seller_agent, manager.product)
       IN  /\ manager' = [manager EXCEPT !.ai_offers = Append(@, ai_price)]
           /\ sellers_price' = Some(ai_price)
    /\ pc' = "prompt"
    /\ UNCHANGED <<seller_agent, buyer_agent, buyer_offer>>
    /\ UNCHANGED <<human_vars, call>>

\* lines 628-662: one pass of the loop: the round is counted, the input is
\* read, and then it is a quit, an input without a price, a price over the
\* budget, or an offer the seller answers
InteractiveRound ==
    /\ pc = "prompt"
    /\ manager.round_number < max_rounds
    /\ \E human_input \in HumanInputs :
          LET round_number == InputRound(manager, human_input)
              human_price == _extract_price_from_input(human_input)
          IN  IF IsQuit(human_input)
                THEN /\ manager' = [manager EXCEPT !.round_number = round_number]
                     /\ ret' = [op |-> human_input, result |-> FALSE]
                     /\ pc' = "after_loop"
                     /\ UNCHANGED <<seller_agent, buyer_offer, sellers_price>>
              ELSE IF IsNone(human_price) \/ human_price[1] > manager.human_budget
                THEN /\ manager' = [manager EXCEPT !.round_number = round_number]
                     /\ ret' = [op |-> human_input, result |-> FALSE]
                     /\ pc' = "prompt"
                     /\ UNCHANGED <<seller_agent, buyer_offer, sellers_price>>
              ELSE LET r == respond_to_buyer(seller_agent, human_price[1], round_number)
                   IN  /\ manager' =
                             [manager EXCEPT
                                !.round_number = round_number,
                                !.human_offers = Append(@, human_price[1]),
                                !.ai_offers = IF r.accepts THEN @ ELSE Append(@, r.price)]
                       /\ seller_agent' = [seller_agent EXCEPT !.rounds_passed = round_number]
                       /\ buyer_offer' = human_price
                       /\ sellers_price' = Some(r.price)
                       /\ ret' = [op |-> human_input, result |-> TRUE]
                       /\ pc' = IF r.accepts THEN "after_loop" ELSE "prompt"
    /\ UNCHANGED <<buyer_agent, system, elapsed, call>>

\* line 628: the loop condition fails
InteractiveLoopExit ==
    /\ pc = "prompt"
    /\ ~(manager.round_number < max_rounds)
    /\ pc' = "after_loop"
    /\ UNCHANGED <<manager, seller_agent, buyer_agent, buyer_offer, sellers_price>>
    /\ UNCHANGED <<human_vars, call>>

\* lines 664-665: "Negotiation timed out!" is printed when round_number >= 10
InteractiveReturns ==
    /\ pc = "after_loop"
    /\ ret' = [op |-> "return", result |-> manager.round_number >= max_rounds]
    /\ pc' = "done"
    /\ UNCHANGED <<manager, seller_agent, buyer_agent, buyer_offer, sellers_price>>
    /\ UNCHANGED <<system, elapsed, call>>

NextInteractive ==
    \/ InteractiveOpens
    \/ InteractiveRound
    \/ InteractiveLoopExit
    \/ InteractiveReturns

SpecInteractive == InitInteractive /\ [][NextInteractive]_vars

-----------------------------------------------------------------------------
(* AISellerAgent, src/bargaining_system.py *)

\* AISellerPersonality: opening_multiplier in hundredths, concessions in percent
AISellerPersonality(personality_type) ==
    CASE personality_type = "AGGRESSIVE" ->
           [name |-> "Aggressive Dealer", opening_multiplier |-> 160,
            min_concession |-> 2, max_concession |-> 8, timeout_pressure |-> TRUE]
      [] personality_type = "DIPLOMATIC" ->
           [name |-> "Diplomatic Trader", opening_multiplier |-> 140,
            min_concession |-> 3, max_concession |-> 12, timeout_pressure |-> FALSE]
      [] personality_type = "CUNNING" ->
           [name |-> "Cunning Merchant", opening_multiplier |-> 150,
            min_concession |-> 1, max_concession |-> 15, timeout_pressure |-> TRUE]

get_opening_offer(personality, product) ==
    Trunc(product.base_market_price * personality.opening_multiplier, 100)

\* [msg.get("offer", 0) for msg in history[-n:] if msg["role"] == "human" and "offer" in msg]
RecentHumanOffers(history, n) ==
    LET from == Max2(1, Len(history) - n + 1)
        tail == SubSeq(history, from, Len(history))
    IN  SelectSeq(tail, LAMBDA msg : msg.role = "human")

\* the human's latest offer is above the one before it
HumanRaising(history) ==
    LET recent == RecentHumanOffers(history, 3)
    IN  Len(recent) >= 2 /\ recent[Len(recent)].amount > recent[Len(recent) - 1].amount

\* the human's latest offer is below the one before it
HumanLowering(history) ==
    LET recent == RecentHumanOffers(history, 3)
    IN  Len(recent) >= 2 /\ recent[Len(recent)].amount < recent[Len(recent) - 1].amount

MinConcession == 1000

EarlyRounds == 2

LateRounds == 6

\* concession_rate as a fraction [num, den]; lines 325-341
ConcessionRate(personality, state) ==
    LET n == IF state.round_number <= EarlyRounds THEN 4 * personality.min_concession
             ELSE IF state.round_number >= LateRounds THEN 4 * personality.max_concession
             ELSE 4 * personality.min_concession
                  + (personality.max_concession - personality.min_concession)
                    * (state.round_number - 2)
    IN  IF personality.name = "Cunning Merchant" /\ HumanRaising(state.conversation_history)
          THEN [num |-> n * 6, den |-> 4000]
          ELSE [num |-> n, den |-> 400]

_calculate_counter_offer(personality, state, human_offer) ==
    LET gap == state.seller_current_price - human_offer
        rate == ConcessionRate(personality, state)
        concession == Max2(MinConcession, Trunc(gap * rate.num, rate.den))
    IN  Max2(state.product.seller_min_price, state.seller_current_price - concession)

EmergencySeconds == 20

\* Mutant: in the last seconds the seller takes any offer.
EmergencyAcceptsAnything(product, human_offer) == TRUE

\* line 285
EmergencyAccepts(product, human_offer) == human_offer >= product.seller_min_price

\* returns (status, price); the message is not part of the decision
respond_to_human_offer(personality, state, human_offer, time_remaining) ==
    LET product == state.product IN
    IF human_offer * 100 >= product.seller_min_price * 105
      THEN [status |-> ACCEPTED, price |-> human_offer]
    ELSE IF time_remaining < EmergencySeconds
      THEN IF EmergencyAccepts(product, human_offer)
             THEN [status |-> ACCEPTED, price |-> human_offer]
             ELSE [status |-> ONGOING,
                   price |-> Max2(product.seller_min_price, Trunc(human_offer * 101, 100))]
    ELSE [status |-> ONGOING,
          price |-> _calculate_counter_offer(personality, state, human_offer)]

-----------------------------------------------------------------------------
(* BargainingSystem, src/bargaining_system.py *)

\* _load_products: the fields the negotiation reads
products_catalog ==
    <<[name |-> "Alphonso Mangoes", base_market_price |-> 200000, seller_min_price |-> 160000],
      [name |-> "Basmati Rice", base_market_price |-> 150000, seller_min_price |-> 125000],
      [name |-> "Darjeeling Tea", base_market_price |-> 75000, seller_min_price |-> 60000],
      [name |-> "Red Chilli", base_market_price |-> 80000, seller_min_price |-> 65000],
      [name |-> "Cotton", base_market_price |-> 120000, seller_min_price |-> 95000]>>

\* time_limit: int = 120
DefaultTimeLimit == 120

\* lines 494-514: the state of a fresh negotiation, the opening entry included
NewNegotiation(product, human_budget, opening_price, time_limit) ==
    [product |-> product,
     human_budget |-> human_budget,
     seller_current_price |-> opening_price,
     human_current_offer |-> 0,
     round_number |-> 1,
     time_limit |-> time_limit,
     conversation_history |-> <<[role |-> "seller", amount |-> opening_price]>>,
     deal_closed |-> FALSE,
     final_price |-> None,
     winner |-> None]

_end_negotiation(neg, result, final_price) ==
    [neg EXCEPT
       !.deal_closed = TRUE,
       !.final_price = final_price,
       !.winner = IF result = "deal" /\ Truthy(final_price) THEN Some("human")
                  ELSE IF result = "deal" THEN @
                  ELSE IF result = "timeout" THEN Some("timeout")
                  ELSE IF result = "rejected" THEN Some("no_deal")
                  ELSE @]

\* t1 is the clock read of line 535, t2 the seller's of line 272
human_make_offer(personality, neg, offer_amount, t1, t2) ==
    IF neg.deal_closed
      THEN [neg |-> neg, result |-> FALSE]
    ELSE IF t1 >= neg.time_limit
      THEN [neg |-> _end_negotiation(neg, "timeout", None), result |-> FALSE]
    ELSE IF offer_amount > neg.human_budget \/ offer_amount <= 0
      THEN [neg |-> neg, result |-> FALSE]
    ELSE LET n1 == [neg EXCEPT
                      !.human_current_offer = offer_amount,
                      !.round_number = @ + 1,
                      !.conversation_history =
                          Append(@, [role |-> "human", amount |-> offer_amount])]
             r == respond_to_human_offer(personality, n1, offer_amount, n1.time_limit - t2)
             n2 == [n1 EXCEPT
                      !.seller_current_price = r.price,
                      !.conversation_history =
                          Append(@, [role |-> "seller", amount |-> r.price])]
         IN  [neg |-> IF r.status = ACCEPTED
                        THEN _end_negotiation(n2, "deal", Some(r.price))
                        ELSE n2,
              result |-> TRUE]

\* Mutant: the budget is not looked at.
AcceptableWhatever(neg) == TRUE

\* line 603, negated
Acceptable(neg) == neg.seller_current_price <= neg.human_budget

\* Mutant: a closed negotiation can be accepted again.
accept_seller_offer_again(neg) ==
    IF ~Acceptable(neg)
      THEN [neg |-> neg, result |-> FALSE]
      ELSE [neg |-> _end_negotiation(
                      [neg EXCEPT !.conversation_history =
                          Append(@, [role |-> "human", amount |-> neg.seller_current_price])],
                      "deal", Some(neg.seller_current_price)),
            result |-> TRUE]

accept_seller_offer(neg) ==
    IF neg.deal_closed \/ ~Acceptable(neg)
      THEN [neg |-> neg, result |-> FALSE]
      ELSE [neg |-> _end_negotiation(
                      [neg EXCEPT !.conversation_history =
                          Append(@, [role |-> "human", amount |-> neg.seller_current_price])],
                      "deal", Some(neg.seller_current_price)),
            result |-> TRUE]

\* lines 618-625: no look at deal_closed
reject_and_exit(neg) ==
    [neg |-> _end_negotiation(neg, "rejected", None), result |-> TRUE]

-----------------------------------------------------------------------------
(* SmartAISeller and SmartBargainingSystem, src/in.py *)

\* AIPersonalities: opening_multiplier in hundredths, concessions in percent
AIPersonalities(personality_key) ==
    CASE personality_key = "AGGRESSIVE_TRADER" ->
           [name |-> "Aggressive Market Trader", opening_multiplier |-> 155,
            min_concession |-> 2, max_concession |-> 8, timeout_pressure |-> TRUE]
      [] personality_key = "DIPLOMATIC_MERCHANT" ->
           [name |-> "Diplomatic Merchant", opening_multiplier |-> 135,
            min_concession |-> 4, max_concession |-> 12, timeout_pressure |-> FALSE]
      [] personality_key = "CUNNING_STRATEGIST" ->
           [name |-> "Cunning Market Strategist", opening_multiplier |-> 145,
            min_concession |-> 1, max_concession |-> 15, timeout_pressure |-> TRUE]

\* ProductCatalog.get_products: the fields the negotiation reads
ProductCatalog ==
    <<[name |-> "Alphonso Mangoes", base_market_price |-> 220000, seller_min_price |-> 175000],
      [name |-> "Basmati Rice", base_market_price |-> 180000, seller_min_price |-> 145000],
      [name |-> "Darjeeling Tea", base_market_price |-> 95000, seller_min_price |-> 76000],
      [name |-> "Kashmir Saffron", base_market_price |-> 450000, seller_min_price |-> 380000],
      [name |-> "Kashmiri Walnuts", base_market_price |-> 160000, seller_min_price |-> 130000]>>

\* lines 623-643: NegotiationState of in.py has one more field
SmartNewNegotiation(product, human_budget, opening_price, time_limit) ==
    [product |-> product,
     human_budget |-> human_budget,
     seller_current_price |-> opening_price,
     human_current_offer |-> 0,
     round_number |-> 1,
     time_limit |-> time_limit,
     conversation_history |-> <<[role |-> "seller", amount |-> opening_price]>>,
     deal_closed |-> FALSE,
     final_price |-> None,
     winner |-> None,
     personality_revealed |-> FALSE]

SmartMinConcession == 2000

SmartPressureSeconds == 60

SmartEmergencySeconds == 15

\* base_rate as a fraction [num, den]; lines 436-453
SmartRate(personality, state, time_remaining) ==
    LET permille == Min2(20 + 15 * state.round_number, 10 * personality.max_concession)
        pressure == IF time_remaining < SmartPressureSeconds THEN 3 ELSE 2
        cunning == personality.name = "Cunning Market Strategist"
        behaviour == IF cunning /\ HumanRaising(state.conversation_history) THEN 7
                     ELSE IF cunning /\ HumanLowering(state.conversation_history) THEN 13
                     ELSE 10
    IN  [num |-> permille * pressure * behaviour, den |-> 20000]

_calculate_smart_counter(personality, state, human_offer, time_remaining) ==
    LET gap == state.seller_current_price - human_offer
        rate == SmartRate(personality, state, time_remaining)
        concession == Max2(SmartMinConcession, Trunc(gap * rate.num, rate.den))
    IN  Max2(state.product.seller_min_price, state.seller_current_price - concession)

\* returns (status, price); the message is not part of the decision
respond_to_offer(personality, state, human_offer, time_remaining) ==
    LET product == state.product IN
    IF human_offer * 100 >= product.seller_min_price * 108
      THEN [status |-> ACCEPTED, price |-> human_offer]
    ELSE IF time_remaining < SmartEmergencySeconds
      THEN IF human_offer >= product.seller_min_price
             THEN [status |-> ACCEPTED, price |-> human_offer]
             ELSE [status |-> ONGOING,
                   price |-> Max2(product.seller_min_price, Trunc(human_offer * 102, 100))]
    ELSE [status |-> ONGOING,
          price |-> _calculate_smart_counter(personality, state, human_offer, time_remaining)]

\* in.py never sets winner
Smart_end_negotiation(neg, result, final_price) ==
    [neg EXCEPT !.deal_closed = TRUE, !.final_price = final_price]

\* t1 is the clock read of line 693, t2 the seller's of line 404
make_human_offer(personality, neg, offer_amount, t1, t2) ==
    IF neg.deal_closed
      THEN [neg |-> neg, result |-> FALSE]
    ELSE IF t1 >= neg.time_limit
      THEN [neg |-> Smart_end_negotiation(neg, "timeout", None), result |-> FALSE]
    ELSE IF offer_amount > neg.human_budget \/ offer_amount <= 0
      THEN [neg |-> neg, result |-> FALSE]
    ELSE LET n1 == [neg EXCEPT
                      !.human_current_offer = offer_amount,
                      !.round_number = @ + 1,
                      !.conversation_history =
                          Append(@, [role |-> "human", amount |-> offer_amount])]
             r == respond_to_offer(personality, n1, offer_amount, n1.time_limit - t2)
             n2 == [n1 EXCEPT
                      !.seller_current_price = r.price,
                      !.conversation_history =
                          Append(@, [role |-> "seller", amount |-> r.price]),
                      \* _display_ai_response, lines 753-757
                      !.personality_revealed = @ \/ n1.round_number >= 3]
         IN  [neg |-> IF r.status = ACCEPTED
                        THEN Smart_end_negotiation(n2, "deal", Some(r.price))
                        ELSE n2,
              result |-> TRUE]

Smart_accept_seller_offer(neg) ==
    IF neg.deal_closed \/ neg.seller_current_price > neg.human_budget
      THEN [neg |-> neg, result |-> FALSE]
      ELSE [neg |-> Smart_end_negotiation(
                      [neg EXCEPT !.conversation_history =
                          Append(@, [role |-> "human", amount |-> neg.seller_current_price])],
                      "deal", Some(neg.seller_current_price)),
            result |-> TRUE]

\* lines 805-815: no look at deal_closed
reject_negotiation(neg) ==
    [neg |-> Smart_end_negotiation(neg, "rejected", None), result |-> TRUE]

-----------------------------------------------------------------------------
(* The human-vs-AI programs under any sequence of commands *)

\* the model issues offers to an open negotiation while round_number is below this
MaxRoundNumber == 5

HumanPrograms == {"bargaining_system", "in"}

\* product_index
ProductChoices == {0, 2}

PersonalityTypes == {"AGGRESSIVE", "DIPLOMATIC", "CUNNING"}

PersonalityKeys == {"AGGRESSIVE_TRADER", "DIPLOMATIC_MERCHANT", "CUNNING_STRATEGIST"}

\* budgets: none, below the seller's minimum, the market price, above any opening
HumanBudgets(product) ==
    {0, product.seller_min_price - 10000, product.base_market_price,
     2 * product.base_market_price}

\* offers: invalid, far below the minimum, just above it, at either
\* acceptance threshold, and above every budget
HumanOffers(product) ==
    {0, product.seller_min_price \div 2, product.seller_min_price + 1000, (product.seller_min_price * 105) \div 100,
     (product.seller_min_price * 108) \div 100, 3 * product.base_market_price}

\* clock reads, seconds since the start: at once, with under 15 seconds left
\* (inside both sellers' emergency windows), time up
Instants == {0, 106, 120}

HasNegotiation == ~IsNone(system.current_negotiation)

Negotiation == system.current_negotiation[1]

SellerPersonality ==
    IF system.program = "in" THEN AIPersonalities(system.personality[1])
    ELSE AISellerPersonality(system.personality[1])

Command(op, result) == [op |-> op, result |-> result]

InitHuman ==
    /\ manager = None
    /\ seller_agent = None
    /\ buyer_agent = None
    /\ buyer_offer = None
    /\ sellers_price = None
    /\ pc = "idle"
    /\ \E program \in HumanPrograms :
          system = [program |-> program, personality |-> None, current_negotiation |-> None]
    /\ elapsed = 0
    /\ ret = Command("none", FALSE)
    /\ call = [agent |-> "none"]

\* BargainingSystem.start_new_negotiation, lines 468-526
StartNewNegotiation ==
    /\ system.program = "bargaining_system"
    /\ ~HasNegotiation
    /\ \E product_index \in ProductChoices \cup {Len(products_catalog)},
          personality_type \in PersonalityTypes, proceed \in BOOLEAN :
         IF product_index >= Len(products_catalog)
           THEN /\ ret' = Command("start_new_negotiation", FALSE)
                /\ UNCHANGED system
           ELSE \E human_budget \in HumanBudgets(products_catalog[product_index + 1]) :
                  LET product == products_catalog[product_index + 1]
                      opening_price ==
                          get_opening_offer(AISellerPersonality(personality_type), product)
                  IN  IF \/ human_budget <= 0
                         \/ (human_budget < product.seller_min_price /\ ~proceed)
                        THEN /\ ret' = Command("start_new_negotiation", FALSE)
                             /\ UNCHANGED system
                        ELSE /\ system' =
                                  [system EXCEPT
                                     !.personality = Some(personality_type),
                                     !.current_negotiation =
                                         Some(NewNegotiation(product, human_budget,
                                                             opening_price, DefaultTimeLimit))]
                             /\ ret' = Command("start_new_negotiation", TRUE)
    /\ UNCHANGED elapsed
    /\ UNCHANGED <<session_vars, call>>

\* BargainingSystem.human_make_offer, lines 528-593
HumanMakeOffer ==
    /\ system.program = "bargaining_system"
    /\ HasNegotiation
    /\ Negotiation.deal_closed \/ Negotiation.round_number < MaxRoundNumber
    /\ \E offer_amount \in HumanOffers(Negotiation.product), t1 \in Instants, t2 \in Instants :
         /\ elapsed <= t1
         /\ t1 <= t2
         /\ LET r == human_make_offer(SellerPersonality, Negotiation, offer_amount, t1, t2)
            IN  /\ system' = [system EXCEPT !.current_negotiation = Some(r.neg)]
                /\ elapsed' = IF Negotiation.deal_closed THEN elapsed
                              ELSE IF r.result THEN t2 ELSE t1
                /\ ret' = Command("human_make_offer", r.result)
    /\ UNCHANGED <<session_vars, call>>

\* BargainingSystem.accept_seller_offer, lines 595-616
AcceptSellerOffer ==
    /\ system.program = "bargaining_system"
    /\ HasNegotiation
    /\ LET r == accept_seller_offer(Negotiation)
       IN  /\ system' = [system EXCEPT !.current_negotiation = Some(r.neg)]
           /\ ret' = Command("accept_seller_offer", r.result)
    /\ UNCHANGED elapsed
    /\ UNCHANGED <<session_vars, call>>

\* BargainingSystem.reject_and_exit, lines 618-625
RejectAndExit ==
    /\ system.program = "bargaining_system"
    /\ HasNegotiation
    /\ LET r == reject_and_exit(Negotiation)
       IN  /\ system' = [system EXCEPT !.current_negotiation = Some(r.neg)]
           /\ ret' = Command("reject_and_exit", r.result)
    /\ UNCHANGED elapsed
    /\ UNCHANGED <<session_vars, call>>

\* SmartBargainingSystem.start_negotiation, lines 596-647
StartNegotiation ==
    /\ system.program = "in"
    /\ ~HasNegotiation
    /\ \E product_index \in ProductChoices \cup {Len(ProductCatalog)},
          selected_personality \in PersonalityKeys, accept_challenge \in BOOLEAN :
         IF product_index >= Len(ProductCatalog)
           THEN /\ ret' = Command("start_negotiation", FALSE)
                /\ UNCHANGED system
           ELSE \E budget \in HumanBudgets(ProductCatalog[product_index + 1]) :
                  LET product == ProductCatalog[product_index + 1]
                      opening_price ==
                          get_opening_offer(AIPersonalities(selected_personality), product)
                  IN  IF budget < product.seller_min_price /\ ~accept_challenge
                        THEN /\ ret' = Command("start_negotiation", FALSE)
                             /\ UNCHANGED system
                        ELSE /\ system' =
                                  [system EXCEPT
                                     !.personality = Some(selected_personality),
                                     !.current_negotiation =
                                         Some(SmartNewNegotiation(product, budget,
                                                                  opening_price, DefaultTimeLimit))]
                             /\ ret' = Command("start_negotiation", TRUE)
    /\ UNCHANGED elapsed
    /\ UNCHANGED <<session_vars, call>>

\* SmartBargainingSystem.make_human_offer, lines 686-748
MakeHumanOffer ==
    /\ system.program = "in"
    /\ HasNegotiation
    /\ Negotiation.deal_closed \/ Negotiation.round_number < MaxRoundNumber
    /\ \E offer_amount \in HumanOffers(Negotiation.product), t1 \in Instants, t2 \in Instants :
         /\ elapsed <= t1
         /\ t1 <= t2
         /\ LET r == make_human_offer(SellerPersonality, Negotiation, offer_amount, t1, t2)
            IN  /\ system' = [system EXCEPT !.current_negotiation = Some(r.neg)]
                /\ elapsed' = IF Negotiation.deal_closed THEN elapsed
                              ELSE IF r.result THEN t2 ELSE t1
                /\ ret' = Command("make_human_offer", r.result)
    /\ UNCHANGED <<session_vars, call>>

\* SmartBargainingSystem.accept_seller_offer, lines 775-803
SmartAcceptSellerOffer ==
    /\ system.program = "in"
    /\ HasNegotiation
    /\ LET r == Smart_accept_seller_offer(Negotiation)
       IN  /\ system' = [system EXCEPT !.current_negotiation = Some(r.neg)]
           /\ ret' = Command("accept_seller_offer", r.result)
    /\ UNCHANGED elapsed
    /\ UNCHANGED <<session_vars, call>>

\* SmartBargainingSystem.reject_negotiation, lines 805-815
RejectNegotiation ==
    /\ system.program = "in"
    /\ HasNegotiation
    /\ LET r == reject_negotiation(Negotiation)
       IN  /\ system' = [system EXCEPT !.current_negotiation = Some(r.neg)]
           /\ ret' = Command("reject_negotiation", r.result)
    /\ UNCHANGED elapsed
    /\ UNCHANGED <<session_vars, call>>

\* a command given before any negotiation was started returns False
CommandWithoutNegotiation ==
    /\ system.program \in HumanPrograms
    /\ ~HasNegotiation
    /\ \E op \in {"make_offer", "accept_seller_offer", "reject"} :
          ret' = Command(op, FALSE)
    /\ UNCHANGED <<system, elapsed>>
    /\ UNCHANGED <<session_vars, call>>

NextHuman ==
    \/ StartNewNegotiation
    \/ HumanMakeOffer
    \/ AcceptSellerOffer
    \/ RejectAndExit
    \/ StartNegotiation
    \/ MakeHumanOffer
    \/ SmartAcceptSellerOffer
    \/ RejectNegotiation
    \/ CommandWithoutNegotiation

SpecHuman == InitHuman /\ [][NextHuman]_vars

-----------------------------------------------------------------------------
(* BargainingSystem of src/bargaining_system.py under offers near the      *)
(* seller's minimum                                                        *)

MaxOfferRound == 4

\* offers: far below the minimum, just below it, just above it
OffersNearMinimum(product) ==
    {product.seller_min_price \div 2, product.seller_min_price - 500,
     product.seller_min_price + 1000}

InitNearMinimum ==
    /\ InitHuman
    /\ system.program = "bargaining_system"

\* BargainingSystem.human_make_offer, lines 528-593
HumanMakeOfferNearMinimum ==
    /\ system.program = "bargaining_system"
    /\ HasNegotiation
    /\ Negotiation.deal_closed \/ Negotiation.round_number < MaxOfferRound
    /\ \E offer_amount \in OffersNearMinimum(Negotiation.product),
          t1 \in Instants, t2 \in Instants :
         /\ elapsed <= t1
         /\ t1 <= t2
         /\ LET r == human_make_offer(SellerPersonality, Negotiation, offer_amount, t1, t2)
            IN  /\ system' = [system EXCEPT !.current_negotiation = Some(r.neg)]
                /\ elapsed' = IF Negotiation.deal_closed THEN elapsed
                              ELSE IF r.result THEN t2 ELSE t1
                /\ ret' = Command("human_make_offer", r.result)
    /\ UNCHANGED <<session_vars, call>>

NextNearMinimum ==
    \/ StartNewNegotiation
    \/ HumanMakeOfferNearMinimum

SpecNearMinimum == InitNearMinimum /\ [][NextNearMinimum]_vars

-----------------------------------------------------------------------------
(* AISellerAgent and BargainingSystem, src/negotiation_agent.py *)

\* src/negotiation_agent.py is the program src/bargaining_system.py grew from:
\* its catalog (lines 240-293), its personalities (lines 60-109), its opening
\* offer (lines 122-135) and the state of a fresh negotiation (lines 322-341)
\* are those of products_catalog, AISellerPersonality, get_opening_offer and
\* NewNegotiation above.  Its seller answers without a text-generation
\* service, by the rule below.

\* time_remaining < 30: the last 30 seconds
LastSeconds == 30

\* lines 162-178: concession_rate, in twenty-thousandths
AgentConcessionRate(personality, state) ==
    LET n == IF state.round_number <= 2 THEN 200 * personality.min_concession
             ELSE IF state.round_number >= 6 THEN 200 * personality.max_concession
             ELSE 200 * personality.min_concession
                  + 50 * (personality.max_concession - personality.min_concession)
                       * (state.round_number - 2)
    IN  IF personality.name = "Cunning Merchant" /\ HumanRaising(state.conversation_history)
          THEN n \div 2
          ELSE n

\* lines 137-188; returns (status, price), the message is not part of the
\* decision
Agent_respond_to_human_offer(personality, state, human_offer, time_remaining) ==
    LET product == state.product
        current_price == state.seller_current_price
        gap == current_price - human_offer
        concession == Trunc(gap * AgentConcessionRate(personality, state), 20000)
    IN  IF human_offer * 100 >= product.seller_min_price * 105
          THEN [status |-> ACCEPTED, price |-> human_offer]
        ELSE IF time_remaining < LastSeconds
          THEN IF human_offer >= product.seller_min_price
                 THEN [status |-> ACCEPTED, price |-> human_offer]
                 ELSE [status |-> ONGOING,
                       price |-> Max2(product.seller_min_price,
                                      Trunc(human_offer * 102, 100))]
        ELSE [status |-> ONGOING,
              price |-> Max2(product.seller_min_price, current_price - concession)]

\* BargainingSystem.human_make_offer, lines 354-414; t1 and t2 are the clock
\* reads of the handler and of the seller
Agent_human_make_offer(personality, neg, offer_amount, t1, t2) ==
    IF neg.deal_closed
      THEN [neg |-> neg, result |-> FALSE]
    ELSE IF t1 >= neg.time_limit
      THEN [neg |-> _end_negotiation(neg, "timeout", None), result |-> FALSE]
    ELSE IF offer_amount > neg.human_budget \/ offer_amount <= 0
      THEN [neg |-> neg, result |-> FALSE]
    ELSE LET n1 == [neg EXCEPT
                      !.human_current_offer = offer_amount,
                      !.round_number = @ + 1,
                      !.conversation_history =
                          Append(@, [role |-> "human", amount |-> offer_amount])]
             r == Agent_respond_to_human_offer(personality, n1, offer_amount,
                                               n1.time_limit - t2)
             n2 == [n1 EXCEPT
                      !.seller_current_price = r.price,
                      !.conversation_history =
                          Append(@, [role |-> "seller", amount |-> r.price])]
         IN  [neg |-> IF r.status = ACCEPTED
                        THEN _end_negotiation(n2, "deal", Some(r.price))
                        ELSE n2,
              result |-> TRUE]

MaxAgentRound == 9

\* offers: invalid, far below the minimum, between the minimum and the
\* acceptance threshold, the market price
AgentOffers(product) ==
    {0, 10000, product.seller_min_price + 2000, product.base_market_price}

InitAgent ==
    /\ manager = None
    /\ seller_agent = None
    /\ buyer_agent = None
    /\ buyer_offer = None
    /\ sellers_price = None
    /\ pc = "idle"
    /\ system = [program |-> "negotiation_agent", personality |-> None,
                 current_negotiation |-> None]
    /\ elapsed = 0
    /\ ret = Command("none", FALSE)
    /\ call = [agent |-> "none"]

\* BargainingSystem.start_new_negotiation, lines 295-352; proceed is the
\* answer to "Continue anyway?"
AgentStartNewNegotiation ==
    /\ system.program = "negotiation_agent"
    /\ ~HasNegotiation
    /\ \E product_index \in ProductChoices \cup {Len(products_catalog)},
          personality_type \in PersonalityTypes, proceed \in BOOLEAN :
         IF product_index >= Len(products_catalog)
           THEN /\ ret' = Command("start_new_negotiation", FALSE)
                /\ UNCHANGED system
           ELSE \E human_budget \in HumanBudgets(products_catalog[product_index + 1]) :
                  LET product == products_catalog[product_index + 1]
                      opening_price ==
                          get_opening_offer(AISellerPersonality(personality_type), product)
                  IN  IF \/ human_budget <= 0
                         \/ (human_budget < product.seller_min_price /\ ~proceed)
                        THEN /\ ret' = Command("start_new_negotiation", FALSE)
                             /\ UNCHANGED system
                        ELSE /\ system' =
                                  [system EXCEPT
                                     !.personality = Some(personality_type),
                                     !.current_negotiation =
                                         Some(NewNegotiation(product, human_budget,
                                                             opening_price, DefaultTimeLimit))]
                             /\ ret' = Command("start_new_negotiation", TRUE)
    /\ UNCHANGED elapsed
    /\ UNCHANGED <<session_vars, call>>

AgentHumanMakeOffer ==
    /\ system.program = "negotiation_agent"
    /\ HasNegotiation
    /\ Negotiation.deal_closed \/ Negotiation.round_number < MaxAgentRound
    /\ \E offer_amount \in AgentOffers(Negotiation.product), t1 \in Instants, t2 \in Instants :
         /\ elapsed <= t1
         /\ t1 <= t2
         /\ LET r == Agent_human_make_offer(SellerPersonality, Negotiation, offer_amount, t1, t2)
            IN  /\ system' = [system EXCEPT !.current_negotiation = Some(r.neg)]
                /\ elapsed' = IF Negotiation.deal_closed THEN elapsed
                              ELSE IF r.result THEN t2 ELSE t1
                /\ ret' = Command("human_make_offer", r.result)
    /\ UNCHANGED <<session_vars, call>>

NextAgent ==
    \/ AgentStartNewNegotiation
    \/ AgentHumanMakeOffer

SpecAgent == InitAgent /\ [][NextAgent]_vars

-----------------------------------------------------------------------------
(* MarketIntelligence and EliteNegotiatorAgent, src/new_bargain_platform.py *)

\* floor(a * b / c) for a >= 0 and b, c > 0, in 32-bit steps
MulDiv(a, b, c) == (a \div c) * b + (((a % c) * b) \div c)

\* int(a * b / c): truncation toward zero
TruncMulDiv(a, b, c) == IF a >= 0 THEN MulDiv(a, b, c) ELSE -MulDiv(-a, b, c)

RECURSIVE GCD(_, _)
GCD(a, b) == IF b = 0 THEN a ELSE GCD(b, a % b)

Abs(n) == IF n >= 0 THEN n ELSE -n

\* the fraction n / d in lowest terms, d > 0
Frac(n, d) ==
    LET g == GCD(Abs(n), d)
    IN  IF n = 0 THEN [num |-> 0, den |-> 1] ELSE [num |-> n \div g, den |-> d \div g]

\* value_multipliers.get(grade, 1.0), in hundredths
value_multipliers(quality_grade) ==
    IF quality_grade = "Export" THEN 130
    ELSE IF quality_grade = "A" THEN 110
    ELSE IF quality_grade = "B" THEN 95
    ELSE 100

\* origin_premiums.get(origin, 1.0), in hundredths
origin_premiums(origin) ==
    IF origin = "Ratnagiri" THEN 125
    ELSE IF origin = "Mumbai" THEN 110
    ELSE IF origin = "Maharashtra" THEN 115
    ELSE 100

\* seasonal_factor is 0.9
analyze_product_value(product) ==
    LET adjusted_market_price ==
            MulDiv(product.base_market_price * value_multipliers(product.quality_grade),
                   origin_premiums(product.origin) * 9, 100000)
    IN  [adjusted_market_value |-> adjusted_market_price,
         fair_price_range |-> <<Trunc(adjusted_market_price * 85, 100),
                                Trunc(adjusted_market_price * 95, 100)>>]

\* leverage_level, from budget_ratio = your_budget / adjusted_market_value
calculate_negotiation_leverage(context, market_analysis) ==
    IF context.your_budget * 10 >= 12 * market_analysis.adjusted_market_value THEN "high"
    ELSE IF context.your_budget * 100 >= 95 * market_analysis.adjusted_market_value
      THEN "medium"
    ELSE "low"

\* returns the opening offer and the market_analysis the agent keeps
Elite_generate_opening_offer(context) ==
    LET market_analysis == analyze_product_value(context.product)
        leverage == calculate_negotiation_leverage(context, market_analysis)
        fair_price_lower == market_analysis.fair_price_range[1]
        opening_offer ==
            IF leverage = "high" THEN Trunc(fair_price_lower * 82, 100)
            ELSE IF leverage = "medium" THEN Trunc(fair_price_lower * 88, 100)
            ELSE Trunc(fair_price_lower * 94, 100)
    IN  [price |-> Min2(opening_offer, Trunc(context.your_budget * 75, 100)),
         market_analysis |-> market_analysis]

\* the sum of (seller_offers[i-1] - seller_offers[i]) / seller_offers[i-1], i = 2..n
RECURSIVE SumReductions(_, _)
SumReductions(seller_offers, n) ==
    IF n < 2 THEN [num |-> 0, den |-> 1]
    ELSE LET rest == SumReductions(seller_offers, n - 1)
             r == Frac(seller_offers[n - 1] - seller_offers[n], seller_offers[n - 1])
         IN  Frac(rest.num * r.den + r.num * rest.den, rest.den * r.den)

\* analyze_seller_pattern: "flexibility" is avg_reduction, a fraction; with fewer
\* than two seller offers the profile has no such key
HasFlexibility(seller_offers) == Len(seller_offers) >= 2

Flexibility(seller_offers) ==
    LET sum == SumReductions(seller_offers, Len(seller_offers))
    IN  [num |-> sum.num, den |-> sum.den * (Len(seller_offers) - 1)]

\* calculate_psychological_pressure, in hundredths: min((round_num / 10) ** 2, 0.95)
calculate_psychological_pressure(round_num) == Min2(round_num * round_num, 95)

_should_accept_deal(seller_price, context, market_analysis) ==
    LET fair_price_upper == market_analysis.fair_price_range[2]
        time_pressure == calculate_psychological_pressure(context.current_round)
        flexibility == IF HasFlexibility(context.seller_offers)
                         THEN Flexibility(context.seller_offers)
                         ELSE [num |-> 0, den |-> 1]
    IN  IF seller_price > context.your_budget THEN FALSE
        ELSE IF seller_price * 10 <= fair_price_upper * 9 THEN TRUE
        ELSE IF time_pressure > 80 /\ seller_price <= fair_price_upper THEN TRUE
        ELSE IF flexibility.num * 10 > flexibility.den /\ time_pressure < 60 THEN FALSE
        ELSE context.current_round >= 8 /\ seller_price * 100 <= fair_price_upper * 105

\* increment_rate before the time factor, in hundredths
IncrementRate(seller_offers) ==
    LET flexibility == Flexibility(seller_offers)
    IN  IF ~HasFlexibility(seller_offers) THEN 45
        ELSE IF flexibility.num * 100 > 8 * flexibility.den THEN 30
        ELSE IF flexibility.num * 100 < 3 * flexibility.den THEN 60
        ELSE 45

\* line 382: counter_offer = min(counter_offer, context.your_budget), in twentieths
EliteEnsureWithinBudget(counter_offer, context) ==
    Min2(counter_offer, context.your_budget * 20)

\* The counter-offer is a Python number: fair_price_lower * 0.85 makes it a float,
\* a multiple of 0.05.  Offers of this agent are counted in twentieths of a rupee.
_calculate_strategic_counter_offer(seller_price, context, market_analysis) ==
    LET last_offer == IF Len(context.your_offers) > 0 THEN Last(context.your_offers) ELSE 0
        fair_price_lower == market_analysis.fair_price_range[1]
        price_gap == seller_price * 20 - last_offer
        time_pressure == calculate_psychological_pressure(context.current_round)
        increment == TruncMulDiv(price_gap * IncrementRate(context.seller_offers),
                                 200 + time_pressure, 400000)
        c0 == last_offer + Max2(increment, 5000) * 20
        c1 == Max2(c0, fair_price_lower * 17)
    IN  Min2(c1, (seller_price - 2000) * 20)

\* returns (status, price), the price in twentieths of a rupee
Elite_respond_to_seller_offer(context, seller_price, market_analysis) ==
    IF _should_accept_deal(seller_price, context, market_analysis)
      THEN [status |-> ACCEPTED, price |-> seller_price * 20]
      ELSE [status |-> ONGOING,
            price |-> EliteEnsureWithinBudget(
                          _calculate_strategic_counter_offer(seller_price, context,
                                                             market_analysis),
                          context)]

-----------------------------------------------------------------------------
(* ExampleSimpleAgent, src/new_bargain_platform.py *)

Simple_generate_opening_offer(context) ==
    Min2(Trunc(context.product.base_market_price * 6, 10), context.your_budget)

Simple_respond_to_seller_offer(context, seller_price) ==
    LET last_offer == IF Len(context.your_offers) > 0 THEN Last(context.your_offers) ELSE 0
        counter == Min2(Trunc(last_offer * 11, 10), context.your_budget)
    IN  IF /\ seller_price <= context.your_budget
           /\ seller_price * 100 <= context.product.base_market_price * 85
          THEN [status |-> ACCEPTED, price |-> seller_price]
        ELSE IF counter * 100 >= seller_price * 95
          THEN [status |-> ONGOING, price |-> Min2(seller_price - 1000, context.your_budget)]
        ELSE [status |-> ONGOING, price |-> counter]

-----------------------------------------------------------------------------
(* MockSellerAgent and run_negotiation_test, src/new_bargain_platform.py *)

\* MockSellerAgent.get_opening_price, lines 636-639
Mock_get_opening_price(product) == Trunc(product.base_market_price * 15, 10)

\* round_num >= 8: close to timeout
MockLateRound == 8

\* MockSellerAgent.respond_to_buyer, lines 641-650; returns (price, accepts)
Mock_respond_to_buyer(min_price, offer, round_num) ==
    IF offer * 10 >= min_price * 11
      THEN [price |-> offer, accepts |-> TRUE]
    ELSE IF round_num >= MockLateRound
      THEN [price |-> Max2(min_price, Trunc(offer * 105, 100)), accepts |-> FALSE]
    ELSE [price |-> Max2(min_price, Trunc(offer * 115, 100)), accepts |-> FALSE]

\* for round_num in range(10)
TestRounds == 10

TestProducts ==
    {[base_market_price |-> 220000, quality_grade |-> "Export", origin |-> "Ratnagiri"],
     [base_market_price |-> 100000, quality_grade |-> "B", origin |-> "Gujarat"]}

TestBudgets == {90010, 150000, 240000}

TestSellerMins == {80000, 92010, 180000}

\* lines 653-671: the test of ExampleSimpleAgent after the seller has opened;
\* seller_round_num is the round_num the seller was last called with
InitTest ==
    /\ manager = None
    /\ seller_agent = None
    /\ buyer_agent = None
    /\ buyer_offer = None
    /\ sellers_price = None
    /\ pc = "test_buyer"
    /\ system = [program |-> "none", personality |-> None, current_negotiation |-> None]
    /\ elapsed = 0
    /\ ret = Command("none", FALSE)
    /\ \E product \in TestProducts, buyer_budget \in TestBudgets, seller_min \in TestSellerMins :
          call = [agent |-> "run_negotiation_test",
                  seller_min |-> seller_min,
                  context |-> [product |-> product,
                               your_budget |-> buyer_budget,
                               current_round |-> 0,
                               seller_offers |-> <<Mock_get_opening_price(product)>>,
                               your_offers |-> <<>>],
                  round_num |-> 0,
                  seller_price |-> Mock_get_opening_price(product),
                  seller_round_num |-> None,
                  status |-> ONGOING,
                  price |-> None,
                  deal_made |-> FALSE,
                  final_price |-> None]

\* lines 677-692: the round begins and the buyer answers
TestBuyerTurn ==
    /\ pc = "test_buyer"
    /\ call.round_num < TestRounds
    /\ LET context == [call.context EXCEPT !.current_round = call.round_num + 1]
           r == IF call.round_num = 0
                  THEN [status |-> ONGOING, price |-> Simple_generate_opening_offer(context)]
                  ELSE Simple_respond_to_seller_offer(context, call.seller_price)
       IN  /\ call' = [call EXCEPT
                         !.context = [context EXCEPT !.your_offers = Append(@, r.price)],
                         !.status = r.status,
                         !.price = Some(r.price),
                         !.deal_made = (r.status = ACCEPTED),
                         !.final_price = IF r.status = ACCEPTED THEN Some(call.seller_price)
                                         ELSE @]
           /\ pc' = IF r.status = ACCEPTED THEN "test_done" ELSE "test_seller"
    /\ UNCHANGED <<manager, seller_agent, buyer_agent, buyer_offer, sellers_price>>
    /\ UNCHANGED <<human_vars>>

\* lines 694-705: the seller answers, with the loop's round_num
TestSellerTurn ==
    /\ pc = "test_seller"
    /\ LET r == Mock_respond_to_buyer(call.seller_min, call.price[1], call.round_num)
       IN  /\ call' = [call EXCEPT
                         !.seller_round_num = Some(call.round_num),
                         !.seller_price = r.price,
                         !.deal_made = r.accepts,
                         !.final_price = IF r.accepts THEN call.price ELSE @,
                         !.context.seller_offers = IF r.accepts THEN @ ELSE Append(@, r.price),
                         !.round_num = IF r.accepts THEN @ ELSE @ + 1]
           /\ pc' = IF r.accepts THEN "test_done" ELSE "test_buyer"
    /\ UNCHANGED <<manager, seller_agent, buyer_agent, buyer_offer, sellers_price>>
    /\ UNCHANGED <<human_vars>>

\* the loop has run its ten rounds
TestLoopEnds ==
    /\ pc = "test_buyer"
    /\ call.round_num >= TestRounds
    /\ pc' = "test_done"
    /\ UNCHANGED <<manager, seller_agent, buyer_agent, buyer_offer, sellers_price>>
    /\ UNCHANGED <<human_vars, call>>

NextTest ==
    \/ TestBuyerTurn
    \/ TestSellerTurn
    \/ TestLoopEnds

SpecTest == InitTest /\ [][NextTest]_vars

-----------------------------------------------------------------------------
(* The command loop of src/in.py: run_negotiation and parse_command *)

\* the command lines that reach neither an offer, an accept nor a reject:
\* "offer" alone, an amount that is no integer, status, help, anything else
OtherCommands == {"offer", "offer abc", "status", "help", "hello"}

\* parse_command, lines 937-975: what the command line returns and the
\* negotiation it leaves; t1 and t2 are the clock reads of make_human_offer
parse_command(personality, neg, cmd, amount, t1, t2) ==
    IF cmd = "offer" THEN make_human_offer(personality, neg, amount, t1, t2)
    ELSE IF cmd = "accept" THEN Smart_accept_seller_offer(neg)
    ELSE IF cmd = "reject" THEN reject_negotiation(neg)
    ELSE [neg |-> neg, result |-> TRUE]

\* lines 1007-1008: if not parse_command(command, system): break
AfterCommand(result) == IF result THEN "command_loop" ELSE "returned"

\* start_negotiation_flow, lines 1019-1057: a negotiation was started with a
\* positive budget and the default time limit, and run_negotiation is entered
InitLoop ==
    /\ manager = None
    /\ seller_agent = None
    /\ buyer_agent = None
    /\ buyer_offer = None
    /\ sellers_price = None
    /\ pc = "command_loop"
    /\ \E product_index \in ProductChoices, selected_personality \in PersonalityKeys :
          \E budget \in HumanBudgets(ProductCatalog[product_index + 1]) :
             LET product == ProductCatalog[product_index + 1]
                 opening_price == get_opening_offer(AIPersonalities(selected_personality), product)
             IN  /\ budget > 0
                 /\ system = [program |-> "in",
                              personality |-> Some(selected_personality),
                              current_negotiation |->
                                  Some(SmartNewNegotiation(product, budget, opening_price,
                                                           DefaultTimeLimit))]
    /\ elapsed = 0
    /\ ret = Command("start_negotiation", TRUE)
    /\ call = [agent |-> "none"]

\* line 993: the negotiation is closed, the loop ends
LoopEnds ==
    /\ pc = "command_loop"
    /\ Negotiation.deal_closed
    /\ pc' = "returned"
    /\ ret' = Command("run_negotiation", TRUE)
    /\ UNCHANGED <<system, elapsed>>
    /\ UNCHANGED <<manager, seller_agent, buyer_agent, buyer_offer, sellers_price, call>>

\* lines 995-998: the time is up when the loop looks at the clock
LoopTimeout ==
    /\ pc = "command_loop"
    /\ ~Negotiation.deal_closed
    /\ \E t0 \in Instants :
          /\ elapsed <= t0
          /\ t0 >= Negotiation.time_limit
          /\ elapsed' = t0
    /\ system' = [system EXCEPT !.current_negotiation =
                      Some(Smart_end_negotiation(Negotiation, "timeout", None))]
    /\ pc' = "returned"
    /\ ret' = Command("timeout", TRUE)
    /\ UNCHANGED <<manager, seller_agent, buyer_agent, buyer_offer, sellers_price, call>>

\* lines 995-1008, "offer <amount>": make_human_offer decides
LoopOffer ==
    /\ pc = "command_loop"
    /\ ~Negotiation.deal_closed
    /\ Negotiation.round_number < MaxRoundNumber
    /\ \E offer_amount \in HumanOffers(Negotiation.product), t0, t1, t2 \in Instants :
          /\ elapsed <= t0 /\ t0 < Negotiation.time_limit
          /\ t0 <= t1 /\ t1 <= t2
          /\ LET r == parse_command(SellerPersonality, Negotiation, "offer", offer_amount, t1, t2)
             IN  /\ system' = [system EXCEPT !.current_negotiation = Some(r.neg)]
                 /\ elapsed' = IF r.result THEN t2 ELSE t1
                 /\ ret' = Command("make_human_offer", r.result)
                 /\ pc' = AfterCommand(r.result)
    /\ UNCHANGED <<manager, seller_agent, buyer_agent, buyer_offer, sellers_price, call>>

\* lines 995-1008, "accept" and "reject" (or "quit", "exit")
LoopAcceptOrReject ==
    /\ pc = "command_loop"
    /\ ~Negotiation.deal_closed
    /\ \E cmd \in {"accept", "reject"}, t0 \in Instants :
          /\ elapsed <= t0 /\ t0 < Negotiation.time_limit
          /\ elapsed' = t0
          /\ LET r == parse_command(SellerPersonality, Negotiation, cmd, 0, t0, t0)
             IN  /\ system' = [system EXCEPT !.current_negotiation = Some(r.neg)]
                 /\ ret' = Command(IF cmd = "accept" THEN "accept_seller_offer"
                                   ELSE "reject_negotiation", r.result)
                 /\ pc' = AfterCommand(r.result)
    /\ UNCHANGED <<manager, seller_agent, buyer_agent, buyer_offer, sellers_price, call>>

\* lines 1003-1008: an empty line, or a command line that changes nothing
LoopOtherCommand ==
    /\ pc = "command_loop"
    /\ ~Negotiation.deal_closed
    /\ \E cmd \in OtherCommands \cup {""}, t0 \in Instants :
          /\ elapsed <= t0 /\ t0 < Negotiation.time_limit
          /\ elapsed' = t0
          /\ LET r == parse_command(SellerPersonality, Negotiation, cmd, 0, t0, t0)
             IN  /\ ret' = Command(cmd, r.result)
                 /\ pc' = IF cmd = "" THEN "command_loop" ELSE AfterCommand(r.result)
    /\ UNCHANGED system
    /\ UNCHANGED <<manager, seller_agent, buyer_agent, buyer_offer, sellers_price, call>>

\* lines 1010-1016: Ctrl-C at the prompt rejects the negotiation; the end of
\* the input just leaves the loop
LoopInterrupted ==
    /\ pc = "command_loop"
    /\ ~Negotiation.deal_closed
    /\ \E exception \in {"KeyboardInterrupt", "EOFError"}, t0 \in Instants :
          /\ elapsed <= t0 /\ t0 < Negotiation.time_limit
          /\ elapsed' = t0
          /\ system' = IF exception = "KeyboardInterrupt"
                         THEN [system EXCEPT !.current_negotiation =
                                  Some(reject_negotiation(Negotiation).neg)]
                         ELSE system
          /\ ret' = Command(exception, FALSE)
    /\ pc' = "returned"
    /\ UNCHANGED <<manager, seller_agent, buyer_agent, buyer_offer, sellers_price, call>>

NextLoop ==
    \/ LoopEnds
    \/ LoopTimeout
    \/ LoopOffer
    \/ LoopAcceptOrReject
    \/ LoopOtherCommand
    \/ LoopInterrupted

SpecLoop == InitLoop /\ [][NextLoop]_vars

-----------------------------------------------------------------------------
(* The text-generation service: LlamaClient and AISellerAgent of           *)
(* src/bargaining_system.py, SmartLlamaClient and SmartAISeller of          *)
(* src/in.py                                                               *)

\* what GET /api/tags does when the client is constructed: answers with
\* llama3.1 listed, answers without it, answers with another status, fails
Connections == {"ok", "no_llama", "error_status", "unreachable"}

\* a text the service returns: its length, the number of pieces split('.')
\* gives, the length of the first two pieces joined, and the price it names
Texts ==
    <<[chars |-> 60, sentences |-> 2, head |-> 60, price |-> Some(1)],
      [chars |-> 0, sentences |-> 1, head |-> 0, price |-> None],
      [chars |-> 4, sentences |-> 1, head |-> 4, price |-> None],
      [chars |-> 900, sentences |-> 12, head |-> 150, price |-> Some(999999)]>>

\* what POST /api/generate does: status 200 with a text, another status, or
\* an exception (connection error, timeout, malformed JSON)
ServiceReplies ==
    [i \in 1..Len(Texts) |-> [outcome |-> "ok", text |-> Texts[i]]]
      \o <<[outcome |-> "error_status", text |-> Texts[2]],
           [outcome |-> "exception", text |-> Texts[2]]>>

\* two different replies, by their places in ServiceReplies, for two runs from
\* the same state: the well-formed text and any other reply
ReplyPairs == {<<1, j>> : j \in 2..Len(ServiceReplies)}

\* LlamaClient._test_connection, lines 71-91: any failure is exit(1)
_test_connection(connection) ==
    IF connection \in {"ok", "no_llama"} THEN "connected" ELSE "exit"

\* SmartLlamaClient._initialize_connection and _fallback_mode, lines 134-170;
\* choice is the answer to "Continue with Smart AI? (y/n)"
_initialize_connection(connection, choice) ==
    IF connection = "ok" THEN "connected"
    ELSE IF choice = "y" THEN "fallback"
    ELSE "exit"

\* LlamaClient.generate_response, lines 93-122: the text, or one of two
\* fixed sentences
generate_response(reply) ==
    IF reply.outcome = "ok" THEN reply.text
    ELSE IF reply.outcome = "error_status"
      THEN [chars |-> 50, sentences |-> 4, head |-> 27, price |-> None]
    ELSE [chars |-> 44, sentences |-> 4, head |-> 20, price |-> None]

\* SmartLlamaClient.generate_response, lines 172-203 and 245-258: the text cut
\* to two sentences, or one of the preset responses, passed on as they are
\* (the shortest has 50 characters)
Smart_generate_response(connected, reply) ==
    IF connected /\ reply.outcome = "ok"
      THEN [chars |-> IF reply.text.sentences > 2 THEN reply.text.head ELSE reply.text.chars,
            sentences |-> Min2(reply.text.sentences, 2),
            head |-> reply.text.head,
            price |-> reply.text.price]
      ELSE [chars |-> 50, sentences |-> 2, head |-> 50, price |-> None]

\* the length of " I can do <price>." with the price grouped by thousands
PriceNoteChars(price) == IF price >= 100000 THEN 19 ELSE 18

\* _process_ai_response, lines 363-399: is the message one of the preset
\* sentences (TRUE) or the service's text, cut and completed (FALSE)
_process_ai_response(personality, ai_response, counter_price, time_remaining) ==
    LET cut == IF ai_response.sentences > 2 THEN ai_response.head ELSE ai_response.chars
        noted == IF ai_response.price = Some(counter_price) THEN cut
                 ELSE cut + PriceNoteChars(counter_price)
        pressed == IF time_remaining < 45 /\ personality.timeout_pressure
                     THEN noted + 24 ELSE noted
    IN  [preset |-> pressed < 15, chars |-> IF pressed < 15 THEN 36 ELSE pressed]

\* _enhance_response, in.py lines 493-512: a signature phrase is put in front
\* of a message shorter than 30 characters
_enhance_response(personality, ai_response, counter_price, time_remaining) ==
    LET noted == IF ai_response.price = Some(counter_price) THEN ai_response.chars
                 ELSE ai_response.chars + PriceNoteChars(counter_price)
    IN  [preset |-> noted < 30, chars |-> IF noted < 30 THEN noted + 30 ELSE noted]

\* Mutant: a price named in the service's text replaces the seller's own.
ReturnedPriceFromResponse(price, ai_response) ==
    IF IsNone(ai_response.price) THEN price ELSE ai_response.price[1]

\* bargaining_system.py lines 267 and 316, in.py lines 399 and 428: the price
\* returned is the one computed before the service was asked
ReturnedPrice(price, ai_response) == price

\* AISellerAgent.get_opening_offer with its message, lines 238-267
OpeningWithMessage(personality, product, reply) ==
    LET opening_price == get_opening_offer(personality, product)
        ai_response == generate_response(reply)
    IN  [status |-> ONGOING,
         price |-> ReturnedPrice(opening_price, ai_response),
         message |-> [preset |-> ai_response.chars < 10,
                      chars |-> IF ai_response.chars < 10 THEN 80
                                ELSE ai_response.chars + PriceNoteChars(opening_price)]]

\* SmartAISeller.get_opening_offer with its message, in.py lines 373-399
SmartOpeningWithMessage(personality, product, connected, reply) ==
    LET opening_price == get_opening_offer(personality, product)
        ai_response == Smart_generate_response(connected, reply)
    IN  [status |-> ONGOING,
         price |-> ReturnedPrice(opening_price, ai_response),
         message |-> [preset |-> ai_response.chars < 20,
                      chars |-> IF ai_response.chars < 20 THEN 80
                                ELSE ai_response.chars + PriceNoteChars(opening_price)]]

\* AISellerAgent.respond_to_human_offer with its message, lines 269-316: the
\* service is asked only once a counter-offer has been computed
ResponseWithMessage(personality, state, human_offer, time_remaining, reply) ==
    LET r == respond_to_human_offer(personality, state, human_offer, time_remaining)
        asked == r.status = ONGOING /\ time_remaining >= EmergencySeconds
        ai_response == generate_response(reply)
    IN  IF asked
          THEN [status |-> r.status,
                price |-> ReturnedPrice(r.price, ai_response),
                message |-> _process_ai_response(personality, ai_response, r.price,
                                                 time_remaining)]
          ELSE [status |-> r.status, price |-> r.price,
                message |-> [preset |-> TRUE, chars |-> 36]]

\* SmartAISeller.respond_to_offer with its message, in.py lines 401-428
SmartResponseWithMessage(personality, state, human_offer, time_remaining, connected, reply) ==
    LET r == respond_to_offer(personality, state, human_offer, time_remaining)
        asked == r.status = ONGOING /\ time_remaining >= SmartEmergencySeconds
        ai_response == Smart_generate_response(connected, reply)
    IN  IF asked
          THEN [status |-> r.status,
                price |-> ReturnedPrice(r.price, ai_response),
                message |-> _enhance_response(personality, ai_response, r.price,
                                              time_remaining)]
          ELSE [status |-> r.status, price |-> r.price,
                message |-> [preset |-> TRUE, chars |-> 36]]

\* the negotiation as the seller is handed it: the human's offer recorded
\* (bargaining_system.py lines 549-560, in.py lines 707-717)
WithHumanOffer(neg, offer_amount) ==
    [neg EXCEPT !.human_current_offer = offer_amount,
                !.round_number = @ + 1,
                !.conversation_history = Append(@, [role |-> "human", amount |-> offer_amount])]

\* offers: far below the minimum, just above it, at the higher acceptance threshold
ServiceOffers(product) ==
    {product.seller_min_price \div 2, product.seller_min_price + 1000,
     (product.seller_min_price * 108) \div 100}

InitService ==
    /\ manager = None
    /\ seller_agent = None
    /\ buyer_agent = None
    /\ buyer_offer = None
    /\ sellers_price = None
    /\ pc = "idle"
    /\ \E program \in HumanPrograms :
          system = [program |-> program, personality |-> None, current_negotiation |-> None]
    /\ elapsed = 0
    /\ ret = Command("none", FALSE)
    /\ call = [agent |-> "none"]

\* BargainingSystem.start_new_negotiation, lines 468-526, with a valid product
\* and budget: AISellerAgent.__init__ builds the LlamaClient, which tests the
\* connection; then the opening offer is asked for
ServiceStartNewNegotiation ==
    /\ pc = "idle"
    /\ system.program = "bargaining_system"
    /\ ~HasNegotiation
    /\ \E product_index \in ProductChoices, personality_type \in PersonalityTypes,
          connection \in Connections, replies \in ReplyPairs :
         LET product == products_catalog[product_index + 1]
             first == ServiceReplies[replies[1]]
             second == ServiceReplies[replies[2]]
             personality == AISellerPersonality(personality_type)
             opening == OpeningWithMessage(personality, product, first)
         IN  IF _test_connection(connection) = "exit"
               THEN /\ pc' = "exited"
                    /\ ret' = Command("exit", FALSE)
                    /\ UNCHANGED <<system, seller_agent, call>>
               ELSE /\ pc' = "idle"
                    /\ seller_agent' = [connected |-> TRUE]
                    /\ system' =
                          [system EXCEPT
                             !.personality = Some(personality_type),
                             !.current_negotiation =
                                 Some(NewNegotiation(product, 2 * product.base_market_price,
                                                     opening.price, DefaultTimeLimit))]
                    /\ ret' = Command("start_new_negotiation", TRUE)
                    /\ call' = [agent |-> "AISellerAgent", op |-> "get_opening_offer",
                                replies |-> replies,
                                first |-> opening,
                                second |-> OpeningWithMessage(personality, product, second)]
    /\ UNCHANGED elapsed
    /\ UNCHANGED <<manager, buyer_agent, buyer_offer, sellers_price>>

\* SmartBargainingSystem.start_negotiation, in.py lines 596-647, with a valid
\* product and budget: SmartAISeller.__init__ builds the SmartLlamaClient
ServiceStartNegotiation ==
    /\ pc = "idle"
    /\ system.program = "in"
    /\ ~HasNegotiation
    /\ \E product_index \in ProductChoices, selected_personality \in PersonalityKeys,
          connection \in Connections, choice \in {"y", "n"},
          replies \in ReplyPairs :
         LET product == ProductCatalog[product_index + 1]
             first == ServiceReplies[replies[1]]
             second == ServiceReplies[replies[2]]
             personality == AIPersonalities(selected_personality)
             client == _initialize_connection(connection, choice)
             connected == client = "connected"
             opening == SmartOpeningWithMessage(personality, product, connected, first)
         IN  IF client = "exit"
               THEN /\ pc' = "exited"
                    /\ ret' = Command("fallback_declined", FALSE)
                    /\ UNCHANGED <<system, seller_agent, call>>
               ELSE /\ pc' = "idle"
                    /\ seller_agent' = [connected |-> connected]
                    /\ system' =
                          [system EXCEPT
                             !.personality = Some(selected_personality),
                             !.current_negotiation =
                                 Some(SmartNewNegotiation(product, 2 * product.base_market_price,
                                                          opening.price, DefaultTimeLimit))]
                    /\ ret' = Command("start_negotiation", TRUE)
                    /\ call' = [agent |-> "SmartAISeller", op |-> "get_opening_offer",
                                replies |-> replies,
                                first |-> opening,
                                second |-> SmartOpeningWithMessage(personality, product,
                                                                   connected, second)]
    /\ UNCHANGED elapsed
    /\ UNCHANGED <<manager, buyer_agent, buyer_offer, sellers_price>>

\* BargainingSystem.human_make_offer, lines 528-593, a valid offer in time:
\* the seller answers, whatever the service does
ServiceHumanMakeOffer ==
    /\ pc = "idle"
    /\ system.program = "bargaining_system"
    /\ HasNegotiation
    /\ ~Negotiation.deal_closed
    /\ Negotiation.round_number < MaxRoundNumber
    /\ \E offer_amount \in ServiceOffers(Negotiation.product), t1 \in Instants, t2 \in Instants,
          replies \in ReplyPairs :
         /\ elapsed <= t1 /\ t1 <= t2 /\ t1 < Negotiation.time_limit
         /\ LET state == WithHumanOffer(Negotiation, offer_amount)
                first == ServiceReplies[replies[1]]
                second == ServiceReplies[replies[2]]
                time_remaining == state.time_limit - t2
                answer == ResponseWithMessage(SellerPersonality, state, offer_amount,
                                              time_remaining, first)
                n2 == [state EXCEPT
                         !.seller_current_price = answer.price,
                         !.conversation_history =
                             Append(@, [role |-> "seller", amount |-> answer.price])]
            IN  /\ system' = [system EXCEPT !.current_negotiation =
                                 Some(IF answer.status = ACCEPTED
                                        THEN _end_negotiation(n2, "deal", Some(answer.price))
                                        ELSE n2)]
                /\ call' = [agent |-> "AISellerAgent", op |-> "respond_to_human_offer",
                            replies |-> replies,
                            first |-> answer,
                            second |-> ResponseWithMessage(SellerPersonality, state, offer_amount,
                                                           time_remaining, second)]
                /\ elapsed' = t2
                /\ ret' = Command("human_make_offer", TRUE)
    /\ pc' = "idle"
    /\ UNCHANGED <<manager, seller_agent, buyer_agent, buyer_offer, sellers_price>>

\* SmartBargainingSystem.make_human_offer, in.py lines 686-748, a valid offer
\* in time
ServiceMakeHumanOffer ==
    /\ pc = "idle"
    /\ system.program = "in"
    /\ HasNegotiation
    /\ ~Negotiation.deal_closed
    /\ Negotiation.round_number < MaxRoundNumber
    /\ \E offer_amount \in ServiceOffers(Negotiation.product), t1 \in Instants, t2 \in Instants,
          replies \in ReplyPairs :
         /\ elapsed <= t1 /\ t1 <= t2 /\ t1 < Negotiation.time_limit
         /\ LET state == WithHumanOffer(Negotiation, offer_amount)
                first == ServiceReplies[replies[1]]
                second == ServiceReplies[replies[2]]
                time_remaining == state.time_limit - t2
                answer == SmartResponseWithMessage(SellerPersonality, state, offer_amount,
                                                   time_remaining, seller_agent.connected, first)
                n2 == [state EXCEPT
                         !.seller_current_price = answer.price,
                         !.conversation_history =
                             Append(@, [role |-> "seller", amount |-> answer.price]),
                         !.personality_revealed = @ \/ state.round_number >= 3]
            IN  /\ system' = [system EXCEPT !.current_negotiation =
                                 Some(IF answer.status = ACCEPTED
                                        THEN Smart_end_negotiation(n2, "deal", Some(answer.price))
                                        ELSE n2)]
                /\ call' = [agent |-> "SmartAISeller", op |-> "respond_to_offer",
                            replies |-> replies,
                            first |-> answer,
                            second |-> SmartResponseWithMessage(SellerPersonality, state,
                                                                offer_amount, time_remaining,
                                                                seller_agent.connected, second)]
                /\ elapsed' = t2
                /\ ret' = Command("make_human_offer", TRUE)
    /\ pc' = "idle"
    /\ UNCHANGED <<manager, seller_agent, buyer_agent, buyer_offer, sellers_price>>

NextService ==
    \/ ServiceStartNewNegotiation
    \/ ServiceStartNegotiation
    \/ ServiceHumanMakeOffer
    \/ ServiceMakeHumanOffer

SpecService == InitService /\ [][NextService]_vars

-----------------------------------------------------------------------------
(* The buyer agents, handed any context by any seller *)

\* the model asks an agent for at most this many responses after its opening
MaxBuyerCalls == 2

BuyerAgents == {"YourBuyerAgent", "EliteNegotiatorAgent", "ExampleSimpleAgent"}

BuyerProducts ==
    {[base_market_price |-> 200000, quality_grade |-> "Export", origin |-> "Ratnagiri"],
     [base_market_price |-> 180000, quality_grade |-> "A", origin |-> "Mumbai"],
     [base_market_price |-> 100000, quality_grade |-> "B", origin |-> "Gujarat"],
     [base_market_price |-> 150000, quality_grade |-> "Standard", origin |-> "Maharashtra"]}

\* context.current_round of a response: the agents read it, they do not count
LaterRounds == {2, 5, 8, 10}

\* seller prices: above the budget, at it, just below it, near the market, low;
\* YourBuyerAgent alone looks at seller_price is None
SellerPrices(agent, context) ==
    {Some(context.your_budget + 10000), Some(context.your_budget),
     Some(context.your_budget - 1000),
     Some((context.product.base_market_price * 9) \div 10),
     Some(context.product.base_market_price \div 2)}
    \cup (IF agent = "YourBuyerAgent" THEN {None} ELSE {})

\* offers are kept in the unit the agent returns them in
PriceUnit(agent) == IF agent = "EliteNegotiatorAgent" THEN 20 ELSE 1

InitBuyer ==
    /\ manager = None
    /\ seller_agent = None
    /\ buyer_agent = None
    /\ buyer_offer = None
    /\ sellers_price = None
    /\ pc = "idle"
    /\ system = [program |-> "none", personality |-> None, current_negotiation |-> None]
    /\ elapsed = 0
    /\ ret = Command("none", FALSE)
    /\ \E agent \in BuyerAgents, product \in BuyerProducts, budget \in Budgets :
          call = [agent |-> agent,
                  context |-> [product |-> product,
                               your_budget |-> budget,
                               current_round |-> 1,
                               seller_offers |-> <<Trunc(product.base_market_price * 15, 10)>>,
                               your_offers |-> <<>>],
                  state |-> IF agent = "YourBuyerAgent" THEN Some(_init_state) ELSE None,
                  calls |-> 0,
                  status |-> ONGOING,
                  price |-> None]

\* generate_opening_offer of the three agents
GenerateOpeningOffer ==
    /\ call.agent \in BuyerAgents
    /\ call.calls = 0
    /\ IsNone(call.price)
    /\ LET elite == Elite_generate_opening_offer(call.context)
           price == IF call.agent = "YourBuyerAgent" THEN generate_opening_offer(call.context)
                    ELSE IF call.agent = "EliteNegotiatorAgent" THEN elite.price * 20
                    ELSE Simple_generate_opening_offer(call.context)
       IN  call' = [call EXCEPT
                      !.price = Some(price),
                      !.state = IF call.agent = "EliteNegotiatorAgent"
                                  THEN Some(elite.market_analysis) ELSE @,
                      !.context.your_offers = Append(@, price)]
    /\ UNCHANGED <<session_vars, human_vars>>

\* respond_to_seller_offer of the three agents, in a later round, to any price
RespondToSellerOffer ==
    /\ call.agent \in BuyerAgents
    /\ ~IsNone(call.price)
    /\ call.status = ONGOING
    /\ call.calls < MaxBuyerCalls
    /\ \E current_round \in LaterRounds, seller_price \in SellerPrices(call.agent, call.context) :
         /\ current_round > call.context.current_round
         /\ LET context == [call.context EXCEPT
                              !.current_round = current_round,
                              !.seller_offers = IF IsNone(seller_price) THEN @
                                                ELSE Append(@, seller_price[1])]
                yours == respond_to_seller_offer(context, seller_price, call.state[1])
                r == IF call.agent = "YourBuyerAgent"
                       THEN [status |-> yours.status, price |-> yours.price,
                             state |-> Some(yours.state)]
                     ELSE IF call.agent = "EliteNegotiatorAgent"
                       THEN LET e == Elite_respond_to_seller_offer(context, seller_price[1],
                                                                   call.state[1])
                            IN  [status |-> e.status, price |-> e.price, state |-> call.state]
                     ELSE LET x == Simple_respond_to_seller_offer(context, seller_price[1])
                          IN  [status |-> x.status, price |-> x.price, state |-> call.state]
            IN  call' = [agent |-> call.agent,
                         context |-> [context EXCEPT !.your_offers = Append(@, r.price)],
                         state |-> r.state,
                         calls |-> call.calls + 1,
                         status |-> r.status,
                         price |-> Some(r.price)]
    /\ UNCHANGED <<session_vars, human_vars>>

NextBuyer ==
    \/ GenerateOpeningOffer
    \/ RespondToSellerOffer

SpecBuyer == InitBuyer /\ [][NextBuyer]_vars

-----------------------------------------------------------------------------
(* The AI-vs-AI sessions and the human-vs-AI programs side by side *)

InitEither == Init \/ InitHuman

\* a step of a session or a command to a human-vs-AI program
NextEither == Next \/ NextHuman

SpecEither == InitEither /\ [][NextEither]_vars

-----------------------------------------------------------------------------
(* Properties of the AI-vs-AI session (Spec, FairSpec) *)

Returned == pc = "done"

SellerOffers == manager.context.seller_offers

YourOffers == manager.context.your_offers

History == manager.conversation_history

\* C1: whenever the session has returned with deal_status ACCEPTED, final_price
\* is recorded and seller.min_price <= final_price <= buyer_budget.
C1_AcceptedPriceWithinBounds ==
    (Returned /\ manager.deal_status = ACCEPTED) =>
        /\ ~IsNone(manager.final_price)
        /\ seller_agent.min_price <= manager.final_price[1]
        /\ manager.final_price[1] <= manager.buyer_budget

\* a session the seller closed in a late round, above its floor and below the budget
C1_SellerClosedLate ==
    /\ Returned
    /\ manager.deal_status = ACCEPTED
    /\ Last(History).speaker = "seller"
    /\ manager.round_number >= SellerLateRound
    /\ seller_agent.min_price < manager.final_price[1]
    /\ manager.final_price[1] < manager.buyer_budget

\* C4, as claimed: every price the seller puts into the session (its opening,
\* its counter-offers, the price of a deal) is at least seller.min_price.
C4_SellerPricesAtLeastMin ==
    /\ \A i \in 1..Len(History) :
          (History[i].speaker = "seller" /\ ~IsNone(History[i].price_offer))
              => History[i].price_offer[1] >= seller_agent.min_price
    /\ ~IsNone(manager.final_price) => manager.final_price[1] >= seller_agent.min_price

\* C5: deal_status leaves ONGOING at most once: a status other than ONGOING is
\* never changed by any later step of start_conversation.
C5_StatusIsFinal ==
    [][manager.deal_status # ONGOING => manager'.deal_status = manager.deal_status]_vars

\* the seller accepted, and the steps after that (the record, the timeout test)
\* have run
C5_SellerAcceptedAndReturned ==
    /\ Returned
    /\ manager.deal_status = ACCEPTED
    /\ Last(History).speaker = "seller"
    /\ manager.final_price = buyer_offer

\* C7, as claimed: in no step taken with deal_status other than ONGOING does
\* context.seller_offers or context.your_offers change.
C7_NoOfferOnceNotOngoing ==
    [][manager.deal_status # ONGOING =>
         (SellerOffers' = SellerOffers /\ YourOffers' = YourOffers)]_vars

\* C7, amended: with deal_status other than ONGOING the offer lists change only
\* when the turn that ended the negotiation is recorded (lines 117 and 131 run
\* after deal_status was assigned): one price, and no record with a final status
\* precedes it.
C7_OnlyTheClosingTurnIsRecorded ==
    [][manager.deal_status # ONGOING =>
         \/ (SellerOffers' = SellerOffers /\ YourOffers' = YourOffers)
         \/ /\ pc \in {"buyer_record", "seller_record"}
            /\ Last(History).deal_status = ONGOING
            /\ Len(SellerOffers') + Len(YourOffers')
                 = Len(SellerOffers) + Len(YourOffers) + 1]_vars

\* the buyer's accepting turn has been recorded with the status it set
C7_BuyerClosingTurnRecorded ==
    /\ pc = "after_loop"
    /\ manager.deal_status = ACCEPTED
    /\ Last(History).speaker = "buyer"
    /\ Last(History).deal_status = ACCEPTED
    /\ Last(YourOffers) = buyer_offer[1]

\* C8: when start_conversation has returned, final_price is set if and only if
\* deal_status is ACCEPTED.
C8_FinalPriceIffAccepted ==
    Returned => (~IsNone(manager.final_price) <=> manager.deal_status = ACCEPTED)

\* the buyer accepted the seller's latest price
C8_BuyerAcceptedAndReturned ==
    /\ Returned
    /\ manager.deal_status = ACCEPTED
    /\ Last(History).speaker = "buyer"
    /\ manager.final_price = Some(Last(SellerOffers))

\* the number of buyer turns in the transcript
BuyerTurnsRecorded == Len(SelectSeq(History, LAMBDA t : t.speaker = "buyer"))

\* C9: round_number starts at 0, never decreases, grows by exactly 1 with each
\* buyer turn and at no other step, never exceeds 10, and context.current_round
\* equals round_number in every state in which an agent is asked for a move.
C9_RoundCounter ==
    /\ manager.round_number = 0
    /\ [](/\ 0 <= manager.round_number
          /\ manager.round_number <= max_rounds
          /\ manager.context.current_round = manager.round_number
          /\ manager.round_number
               = BuyerTurnsRecorded + (IF pc = "buyer_record" THEN 1 ELSE 0))
    /\ [][IF pc = "loop" /\ pc' = "buyer_record"
            THEN manager'.round_number = manager.round_number + 1
            ELSE manager'.round_number = manager.round_number]_vars

\* the buyer has been asked in the tenth round and the seller is about to be
C9_TenthRoundAsked ==
    /\ pc = "seller"
    /\ manager.round_number = max_rounds
    /\ manager.context.current_round = max_rounds

SystemRecords == SelectSeq(History, LAMBDA t : t.speaker = "system")

\* C10: start_conversation returns, in a terminal status; a session nobody
\* accepted returns after exactly 10 rounds with deal_status TIMEOUT, final_price
\* unset and one system record, the last of the transcript.
C10_TerminatesInTerminalStatus ==
    /\ <>Returned
    /\ [](Returned =>
            /\ manager.deal_status \in {ACCEPTED, REJECTED, TIMEOUT}
            /\ manager.deal_status # ACCEPTED =>
                  /\ manager.deal_status = TIMEOUT
                  /\ manager.round_number = max_rounds
                  /\ BuyerTurnsRecorded = max_rounds
                  /\ IsNone(manager.final_price)
                  /\ Len(SystemRecords) = 1
                  /\ Last(History).speaker = "system"
                  /\ Last(History).deal_status = TIMEOUT)

\* a session that timed out
C10_TimedOut ==
    /\ Returned
    /\ manager.deal_status = TIMEOUT
    /\ manager.round_number = max_rounds

\* C11: the seller's opening is the first entry of the ledger, and the only
\* offer there is when the buyer makes its first move; after it the entries
\* alternate buyer, seller, the buyer of round r at place 2r and the seller of
\* round r at place 2r + 1, so that a round has one buyer turn and at most
\* one seller turn; a system record can only close the ledger.
C11_SellerOpensThenTurnsAlternate ==
    /\ pc = "open" => History = <<>>
    /\ pc # "open" =>
          /\ Len(History) >= 1
          /\ History[1].speaker = "seller"
          /\ History[1].round_number = 0
    /\ (pc = "loop" /\ manager.round_number = 0) =>
          /\ Len(History) = 1
          /\ Len(SellerOffers) = 1
          /\ YourOffers = <<>>
    /\ \A i \in 2..Len(History) :
          IF History[i].speaker = "system"
            THEN i = Len(History)
            ELSE /\ History[i].speaker = (IF i % 2 = 0 THEN "buyer" ELSE "seller")
                 /\ History[i].round_number = i \div 2

\* a session the buyer closed in the tenth round: ten buyer turns, nine seller
\* turns after the opening
C11_BuyerClosedTenthRound ==
    /\ Returned
    /\ manager.round_number = max_rounds
    /\ Len(History) = 2 * max_rounds
    /\ Last(History).speaker = "buyer"
    /\ manager.deal_status = ACCEPTED

\* Scenario A of run_full_conversation: market 200000, Export grade, budget
\* 190000, seller minimum 160000
ScenarioA ==
    /\ manager.product = [base_market_price |-> 200000, quality_grade |-> "Export"]
    /\ manager.buyer_budget = 190000
    /\ seller_agent.min_price = 160000

\* C13: in scenario A, whatever the seller's strategy, start_conversation
\* returns, and it returns ACCEPTED in a round <= 10 with final_price in
\* [160000, 190000].
C13_ScenarioAEndsInADeal ==
    /\ ScenarioA => <>(ScenarioA /\ Returned)
    /\ []((ScenarioA /\ Returned) =>
            /\ manager.deal_status = ACCEPTED
            /\ manager.round_number <= max_rounds
            /\ ~IsNone(manager.final_price)
            /\ 160000 <= manager.final_price[1]
            /\ manager.final_price[1] <= 190000)

\* scenario A against the aggressive seller has returned with a deal
C13_AggressiveSellerDeal ==
    /\ ScenarioA
    /\ seller_agent.strategy = "aggressive"
    /\ Returned
    /\ manager.deal_status = ACCEPTED
    /\ manager.round_number > 1

C23_FinalGapWithinInitialGap ==
    Returned =>
        Abs(Last(SellerOffers) - Last(YourOffers)) <= Abs(SellerOffers[1] - YourOffers[1])

\* the buyer's offer yields at least the strategy's margin over min_price
YieldsStrategyMargin(agent, offer) ==
    LET percent == IF agent.strategy = "aggressive" THEN 15
                   ELSE IF agent.strategy = "balanced" THEN 10
                   ELSE 5
    IN  (offer - agent.min_price) * 100 >= percent * agent.min_price

\* the seller's answer of this step is an acceptance at the given price
SellerAcceptedAt(offer) ==
    /\ manager'.deal_status = ACCEPTED
    /\ sellers_price' = Some(offer)
    /\ manager'.final_price = Some(offer)

\* C25 (as stated): AdvancedSellerAgent.respond_to_buyer accepts exactly when
\* the offer yields the strategy's margin over min_price, or in the terminal
\* round when the offer is at least min_price. The terminal round is read
\* generously, as the seller's own final rounds (9 and later).
C25_AcceptsOnlyInTerminalRound ==
    [][pc = "seller" =>
         LET offer == buyer_offer[1]
         IN  manager'.deal_status = ACCEPTED
               <=> \/ YieldsStrategyMargin(seller_agent, offer)
                   \/ /\ manager.round_number >= SellerFinalRound
                      /\ offer >= seller_agent.min_price]_vars

\* C25 (amended): AdvancedSellerAgent.respond_to_buyer accepts exactly when
\* the offer yields the strategy's margin over min_price (15% aggressive, 10%
\* balanced, 5% conservative), or from round 8 on when the offer is at least
\* min_price; it never accepts an offer below min_price, and the accepted
\* price is the buyer's offer.
C25_SellerAcceptancePolicy ==
    [][pc = "seller" =>
         LET offer == buyer_offer[1]
             accepted == manager'.deal_status = ACCEPTED
         IN  /\ accepted
                   <=> \/ YieldsStrategyMargin(seller_agent, offer)
                       \/ /\ manager.round_number >= 8
                          /\ offer >= seller_agent.min_price
             /\ accepted => offer >= seller_agent.min_price /\ SellerAcceptedAt(offer)
             /\ ~accepted => sellers_price' # None]_vars

\* the seller has accepted, in round 8, an offer at or above min_price that
\* does not yield its strategy's margin
C25_AcceptedInRoundEightBelowMargin ==
    /\ pc = "seller_record"
    /\ manager.deal_status = ACCEPTED
    /\ manager.round_number = 8
    /\ sellers_price = buyer_offer
    /\ buyer_offer[1] >= seller_agent.min_price
    /\ ~YieldsStrategyMargin(seller_agent, buyer_offer[1])

\* the buyer's _state had _update_seller_model seen every one of the offers,
\* first to last
RECURSIVE EstimateOver(_)
EstimateOver(offers) ==
    IF offers = <<>>
      THEN _init_state
      ELSE _update_seller_model(EstimateOver(SubSeq(offers, 1, Len(offers) - 1)),
                                Last(offers))

\* C27: once the buyer has answered a seller offer (round 2 and later), its
\* estimate of the seller's floor is the one seeded at 0.9 times the first
\* seller price of the session and updated once for each later seller offer of
\* the ledger, none skipped.
C27_EstimateFollowsEverySellerOffer ==
    (pc = "buyer_record" /\ manager.round_number >= 2)
        => buyer_agent = EstimateOver(SellerOffers)

\* C31: every counter-offer YourBuyerAgent makes in a session is at least its
\* own previous offer.
C31_BuyerOnlyConcedesUpward ==
    [][(/\ pc = "loop"
        /\ LoopCondition(manager)
        /\ Len(YourOffers) > 0
        /\ manager'.deal_status = ONGOING)
         => buyer_offer'[1] >= Last(YourOffers)]_vars

\* C32: every counter-offer AdvancedSellerAgent makes in a session is at most
\* the seller's own previous offer, its opening price or its last counter.
C32_SellerOnlyConcedesDownward ==
    [][(/\ pc = "seller"
        /\ manager'.deal_status = ONGOING)
         => sellers_price'[1] <= Last(SellerOffers)]_vars

\* C35: whenever the seller's min_price is at most the buyer's budget, the
\* session returned by start_conversation has ended ACCEPTED, within 10
\* rounds, and not TIMEOUT.
C35_DealWheneverOneIsPossible ==
    (Returned /\ seller_agent.min_price <= manager.buyer_budget)
        => /\ manager.deal_status = ACCEPTED
           /\ manager.round_number <= max_rounds

\* C36: whenever a session has ended ACCEPTED, final_price is the price of the
\* last transcript turn, the last entry of seller_offers and the last entry of
\* your_offers, whichever party accepted.
C36_BothLedgersEndAtFinalPrice ==
    (Returned /\ manager.deal_status = ACCEPTED)
        => /\ manager.final_price # None
           /\ Last(History).price_offer = manager.final_price
           /\ Len(SellerOffers) > 0
           /\ Len(YourOffers) > 0
           /\ Last(SellerOffers) = manager.final_price[1]
           /\ Last(YourOffers) = manager.final_price[1]

\* a session the buyer closed in round 4 or later by accepting the seller's
\* price, which is not the buyer's own previous offer
C36_BuyerTookSellersPrice ==
    /\ Returned
    /\ manager.deal_status = ACCEPTED
    /\ Last(History).speaker = "buyer"
    /\ manager.round_number >= 4
    /\ Len(YourOffers) >= 2
    /\ YourOffers[Len(YourOffers) - 1] # manager.final_price[1]

-----------------------------------------------------------------------------
(* Properties of the human-vs-AI programs (SpecHuman) *)

\* C2: whenever the negotiation's final_price is set, whichever call set it,
\* product.seller_min_price <= final_price <= human_budget.
C2_HumanFinalPriceWithinBounds ==
    (HasNegotiation /\ ~IsNone(Negotiation.final_price)) =>
        /\ Negotiation.product.seller_min_price <= Negotiation.final_price[1]
        /\ Negotiation.final_price[1] <= Negotiation.human_budget

\* BargainingSystem's seller took, in the last seconds, an offer under its
\* 5% margin
C2_EmergencyDeal ==
    /\ system.program = "bargaining_system"
    /\ HasNegotiation
    /\ ret = Command("human_make_offer", TRUE)
    /\ ~IsNone(Negotiation.final_price)
    /\ Negotiation.final_price[1] * 100 < Negotiation.product.seller_min_price * 105

\* C6, as claimed: once BargainingSystem's negotiation is closed, no call changes
\* final_price, winner, round_number, seller_current_price, human_current_offer
\* or conversation_history.
C6_ClosedNegotiationIsFrozen ==
    [][(system.program = "bargaining_system" /\ HasNegotiation /\ Negotiation.deal_closed) =>
         LET before == system.current_negotiation[1]
             after == system'.current_negotiation[1]
         IN  /\ after.final_price = before.final_price
             /\ after.winner = before.winner
             /\ after.round_number = before.round_number
             /\ after.seller_current_price = before.seller_current_price
             /\ after.human_current_offer = before.human_current_offer
             /\ after.conversation_history = before.conversation_history]_vars

\* an open negotiation of BargainingSystem
OpenNegotiation ==
    /\ system.program = "bargaining_system"
    /\ HasNegotiation
    /\ ~Negotiation.deal_closed

\* C12, as claimed: a human_make_offer or accept_seller_offer issued to an open
\* negotiation when the elapsed time has reached time_limit closes no deal; the
\* negotiation ends timed out with final_price unset.
C12_NoDealAfterTimeLimit ==
    [][(/\ OpenNegotiation
        /\ elapsed >= Negotiation.time_limit
        /\ ret'.op \in {"human_make_offer", "accept_seller_offer"}) =>
           LET after == system'.current_negotiation[1]
           IN  /\ after.deal_closed
               /\ IsNone(after.final_price)
               /\ after.winner = Some("timeout")]_vars

\* C16: with an open negotiation and time left, human_make_offer with an amount
\* <= 0 or above human_budget, and accept_seller_offer with seller_current_price
\* above human_budget, return False and leave the negotiation as it was; and
\* every offer that returned False with time left left it as it was.
C16_InvalidMoveNotRecorded ==
    /\ [](OpenNegotiation =>
            /\ \A offer_amount \in HumanOffers(Negotiation.product), t1 \in Instants,
                   t2 \in Instants :
                  (/\ elapsed <= t1
                   /\ t1 <= t2
                   /\ t1 < Negotiation.time_limit
                   /\ (offer_amount <= 0 \/ offer_amount > Negotiation.human_budget)) =>
                     human_make_offer(SellerPersonality, Negotiation, offer_amount, t1, t2)
                       = [neg |-> Negotiation, result |-> FALSE]
            /\ Negotiation.seller_current_price > Negotiation.human_budget =>
                  accept_seller_offer(Negotiation) = [neg |-> Negotiation, result |-> FALSE])
    /\ [][(/\ OpenNegotiation
            /\ ret' \in {Command("human_make_offer", FALSE),
                          Command("accept_seller_offer", FALSE)}
            /\ elapsed' < Negotiation.time_limit) =>
               system'.current_negotiation = system.current_negotiation]_vars

\* after two recorded offers, an offer was refused with time left and the
\* negotiation is still open
C16_OfferRefused ==
    /\ OpenNegotiation
    /\ ret = Command("human_make_offer", FALSE)
    /\ Negotiation.round_number >= 3
    /\ elapsed < Negotiation.time_limit

\* C21: no negotiation is ever started with a budget that is not positive: a
\* program that holds a negotiation holds one with human_budget > 0.
C21_NoNegotiationWithoutBudget ==
    HasNegotiation => Negotiation.human_budget > 0

\* C30: the conversation history of BargainingSystem starts with the seller's
\* opening entry and, after any sequence of human_make_offer and
\* accept_seller_offer calls, no two consecutive entries have the same role.
C30_HistoryAlternates ==
    (system.program = "bargaining_system" /\ HasNegotiation)
        => LET history == Negotiation.conversation_history
           IN  /\ Len(history) >= 1
               /\ history[1].role = "seller"
               /\ \A i \in 1..(Len(history) - 1) : history[i].role # history[i + 1].role

\* after two offers and their answers the human accepted the seller's price:
\* six entries, the last one the human's
C30_AcceptedAfterTwoOffers ==
    /\ system.program = "bargaining_system"
    /\ HasNegotiation
    /\ Negotiation.deal_closed
    /\ Len(Negotiation.conversation_history) = 6
    /\ Last(Negotiation.conversation_history).role = "human"
    /\ ret = Command("accept_seller_offer", TRUE)

-----------------------------------------------------------------------------
(* Properties of BargainingSystem under offers near the minimum            *)
(* (SpecNearMinimum)                                                       *)

\* C33: after every human_make_offer of BargainingSystem that does not close
\* the deal, offers answered in the last 20 seconds included, the seller's
\* seller_current_price is at most what it was before the call.
C33_AskingPriceNeverRises ==
    [][(/\ ret'.op = "human_make_offer"
        /\ ret'.result
        /\ HasNegotiation
        /\ ~Negotiation.deal_closed
        /\ ~Negotiation'.deal_closed)
         => Negotiation'.seller_current_price <= Negotiation.seller_current_price]_vars

-----------------------------------------------------------------------------
(* Properties of the seller of src/negotiation_agent.py (SpecAgent) *)

\* C29: every counter-offer of AISellerAgent.respond_to_human_offer of
\* src/negotiation_agent.py to an offer it does not accept, computed outside
\* the last-30-seconds branch, is strictly below the seller's previous price
\* unless the previous price is already seller_min_price.
C29_CounterOfferMakesProgress ==
    [][(/\ ret'.op = "human_make_offer"
        /\ ret'.result
        /\ ~Negotiation.deal_closed
        /\ ~Negotiation'.deal_closed
        /\ Negotiation.time_limit - elapsed' >= LastSeconds)
         => \/ Negotiation'.seller_current_price < Negotiation.seller_current_price
            \/ Negotiation.seller_current_price = Negotiation.product.seller_min_price]_vars

-----------------------------------------------------------------------------
(* Properties of run_negotiation_test (SpecTest) *)

\* C37: in every round of run_negotiation_test the round number the seller's
\* respond_to_buyer is called with equals context.current_round given to the
\* buyer.
C37_SellerSeesBuyersRound ==
    [][pc = "test_seller"
         => call'.seller_round_num[1] = call'.context.current_round]_vars

-----------------------------------------------------------------------------
(* Properties of the session with any seller (SpecAnySeller) *)

\* the seller's opening price is at most the buyer's round-1 target and the budget
OpeningWithinRoundOneTarget ==
    /\ Len(History) >= 1
    /\ ~IsNone(History[1].price_offer)
    /\ LET b == _bounds(manager.context)
       IN  /\ History[1].price_offer[1] <= RoundTarget(b.opening, b.walkaway, 1)
           /\ History[1].price_offer[1] <= manager.buyer_budget

\* C15: a session whose seller opened at or below the buyer's round-1 target
\* (and the budget) returns ACCEPTED in round 1, final_price being the
\* seller's opening price.
C15_LowOpeningAcceptedInRoundOne ==
    (Returned /\ OpeningWithinRoundOneTarget) =>
        /\ manager.deal_status = ACCEPTED
        /\ manager.round_number = 1
        /\ manager.final_price = History[1].price_offer

-----------------------------------------------------------------------------
(* Properties of the interactive session (SpecInteractive) *)

\* the input is not an offer: no price in it, or a price above human_budget
InvalidInput(human_input) ==
    /\ ~IsQuit(human_input)
    /\ LET human_price == _extract_price_from_input(human_input)
       IN  IsNone(human_price) \/ human_price[1] > manager.human_budget

\* C17: an input without a price or with a price above human_budget leaves
\* round_number as it was, and a session that was not quit and closed no deal
\* times out only after ten offers of the human.
C17_InvalidInputCostsNoRound ==
    /\ [][(pc = "prompt" /\ ret'.op \in HumanInputs /\ InvalidInput(ret'.op)) =>
             manager'.round_number = manager.round_number]_vars
    /\ []((Returned /\ ret.result) => Len(manager.human_offers) = max_rounds)

-----------------------------------------------------------------------------
(* Properties of the command loop of src/in.py (SpecLoop) *)

\* C18: after an offer refused as invalid or an accept refused because the
\* price is above the budget, the negotiation is still open and the loop is
\* back at its prompt; and, unless the input has ended, the loop is left only
\* with the negotiation closed.
C18_LoopGoesOnAfterRefusedMove ==
    /\ [][(/\ pc = "command_loop"
            /\ ret' \in {Command("make_human_offer", FALSE),
                         Command("accept_seller_offer", FALSE)}
            /\ elapsed' < Negotiation.time_limit) =>
             (~system'.current_negotiation[1].deal_closed /\ pc' = "command_loop")]_vars
    /\ []((pc = "returned" /\ ret.op # "EOFError") => Negotiation.deal_closed)

-----------------------------------------------------------------------------
(* Properties of the sellers and the text-generation service (SpecService) *)

\* C19: a failure of the text-generation service never keeps a negotiation
\* from starting or ends one: the program is left only when the user declines
\* the fallback mode, and every answer of a seller has a status, a positive
\* price and a message.
C19_ServiceFailureNeverStopsNegotiation ==
    /\ pc = "exited" => ret = Command("fallback_declined", FALSE)
    /\ (call.agent # "none" /\ HasNegotiation) =>
          \A answer \in {call.first, call.second} :
             /\ answer.status \in {ONGOING, ACCEPTED}
             /\ answer.price > 0
             /\ answer.message.chars > 0

\* C20: the status and the price a seller returns are the same under any two
\* replies of the text-generation service, for the opening offer and for the
\* answer to a human offer alike.
C20_DecisionIndependentOfText ==
    call.agent # "none" =>
        /\ call.first.status = call.second.status
        /\ call.first.price = call.second.price

\* a seller countered an offer; under a text naming another price and under a
\* failed call its messages differ
C20_CounterUnderDifferentReplies ==
    /\ call.agent = "AISellerAgent"
    /\ call.op = "respond_to_human_offer"
    /\ call.first.status = ONGOING
    /\ ServiceReplies[call.replies[1]].outcome = "ok"
    /\ ServiceReplies[call.replies[1]].text.price = Some(1)
    /\ ServiceReplies[call.replies[2]].outcome = "exception"
    /\ call.first.message # call.second.message
    /\ Negotiation.round_number >= 3

-----------------------------------------------------------------------------
(* Properties of both kinds of session (SpecEither) *)

\* an AI-vs-AI session, at any step
InSession == pc \notin {"idle"}

\* C14: with a budget strictly below the seller's minimum nobody ever accepts:
\* the AI-vs-AI session is never ACCEPTED, sets no final_price and returns
\* TIMEOUT; in BargainingSystem no command sets final_price or makes the human
\* the winner.
C14_NoDealBelowSellerMinimum ==
    /\ (InSession /\ manager.buyer_budget < seller_agent.min_price) =>
          /\ manager.deal_status # ACCEPTED
          /\ IsNone(manager.final_price)
          /\ Returned => manager.deal_status = TIMEOUT
    /\ (/\ system.program = "bargaining_system"
        /\ HasNegotiation
        /\ Negotiation.human_budget < Negotiation.product.seller_min_price) =>
          /\ IsNone(Negotiation.final_price)
          /\ Negotiation.winner # Some("human")

\* an AI-vs-AI session with the budget below the seller's minimum has returned:
\* ten buyer offers, none taken
C14_SessionBelowMinimumReturned ==
    /\ InSession
    /\ manager.buyer_budget < seller_agent.min_price
    /\ Returned
    /\ Len(YourOffers) = max_rounds
    /\ manager.deal_status = TIMEOUT

-----------------------------------------------------------------------------
(* Properties of the buyer agents (SpecBuyer) *)

\* C3: every price a buyer agent has returned, as an opening offer, a
\* counter-offer or an accepted price, is at most context.your_budget.
C3_BuyerPriceWithinBudget ==
    /\ ~IsNone(call.price) =>
          call.price[1] <= call.context.your_budget * PriceUnit(call.agent)
    /\ \A i \in 1..Len(call.context.your_offers) :
          call.context.your_offers[i] <= call.context.your_budget * PriceUnit(call.agent)

\* an agent countered a seller price above its budget with its whole budget
C3_CounterAtBudget ==
    /\ call.calls > 0
    /\ call.status = ONGOING
    /\ Last(call.context.seller_offers) > call.context.your_budget
    /\ call.price = Some(call.context.your_budget * PriceUnit(call.agent))

\* a step in which YourBuyerAgent.respond_to_seller_offer is called and returns
YourBuyerResponds ==
    /\ call.agent = "YourBuyerAgent"
    /\ call'.calls = call.calls + 1

\* the step's seller_price argument is a price, not None: RespondToSellerOffer
\* appends it to the context's seller_offers
SellerPriceGiven == Len(call'.context.seller_offers) > Len(call.context.seller_offers)

\* the round target of the context the step hands the agent
GivenRoundTarget ==
    LET b == _bounds(call'.context)
    IN  RoundTarget(b.opening, b.walkaway, call'.context.current_round)

\* C24: YourBuyerAgent.respond_to_seller_offer returns ACCEPTED at the seller's
\* price whenever that price is at most the round target and the budget, and
\* whenever the round is the final one and the price is at most the budget; it
\* never returns ACCEPTED for a price above the budget or for no price.
C24_BuyerAcceptancePolicy ==
    [][YourBuyerResponds =>
         LET context == call'.context
             sp == Last(context.seller_offers)
             accepted == call'.status = ACCEPTED /\ call'.price = Some(sp)
         IN  /\ (SellerPriceGiven /\ sp <= GivenRoundTarget /\ sp <= context.your_budget)
                   => accepted
             /\ (SellerPriceGiven /\ context.current_round = BuyerFinalRound
                                  /\ sp <= context.your_budget)
                   => accepted
             /\ call'.status = ACCEPTED
                   => (SellerPriceGiven /\ sp <= context.your_budget /\ call'.price = Some(sp))]_vars

\* in the final round YourBuyerAgent took a price equal to its budget and above
\* its walk-away price
C24_FinalRoundFallback ==
    /\ call.agent = "YourBuyerAgent"
    /\ call.calls > 0
    /\ call.status = ACCEPTED
    /\ call.context.current_round = BuyerFinalRound
    /\ call.price = Some(call.context.your_budget)
    /\ call.context.your_budget > _bounds(call.context).walkaway

\* C26: before the final round, YourBuyerAgent accepts a seller price above the
\* round target only in round 8 or later, and only when that price is at most
\* its estimate of the seller's floor (as updated with that price) and at most
\* the budget.
C26_LateAcceptanceWithinEstimate ==
    [][(/\ YourBuyerResponds
        /\ call'.status = ACCEPTED
        /\ call'.context.current_round < BuyerFinalRound
        /\ SellerPriceGiven
        /\ Last(call'.context.seller_offers) > GivenRoundTarget)
         => LET sp == Last(call'.context.seller_offers)
                est_min == call'.state[1].seller_min_est
            IN  /\ call'.context.current_round >= BuyerLateRound
                /\ est_min # None
                /\ sp <= est_min[1]
                /\ sp <= call'.context.your_budget]_vars

\* C28: a counter-offer of YourBuyerAgent.respond_to_seller_offer to a given
\* seller price differs from the buyer's previous offer whenever the previous
\* offer plus MIN_STEP is within the budget.
C28_CounterMovesWhileRoomUnderBudget ==
    [][(/\ YourBuyerResponds
        /\ SellerPriceGiven
        /\ call'.status = ONGOING
        /\ Len(call.context.your_offers) > 0
        /\ Last(call.context.your_offers) + 1000 <= call.context.your_budget)
         => call'.price # Some(Last(call.context.your_offers))]_vars

\* YourBuyerAgent stood at its walk-away price, below a seller price it did
\* not accept, and its counter is that price plus MIN_STEP
C28_MinimumStepForced ==
    /\ call.agent = "YourBuyerAgent"
    /\ call.status = ONGOING
    /\ call.calls > 0
    /\ Len(call.context.your_offers) >= 2
    /\ LET n == Len(call.context.your_offers)
           previous == call.context.your_offers[n - 1]
       IN  /\ previous = _bounds(call.context).walkaway
           /\ Last(call.context.seller_offers) > previous
           /\ call.price = Some(previous + MIN_STEP)
           /\ previous + MIN_STEP <= call.context.your_budget

\* C34: whenever YourBuyerAgent.respond_to_seller_offer returns ONGOING for a
\* given seller price, its counter price is at most that seller price.
C34_CounterNotAboveSellerPrice ==
    [][(/\ YourBuyerResponds
        /\ SellerPriceGiven
        /\ call'.status = ONGOING)
         => call'.price[1] <= Last(call'.context.seller_offers)]_vars

=============================================================================
